---- MODULE Spec2Model ----
(***************************************************************************)
(* A model of the BIG Modelling Bus artefact connector (Layer 3) over the  *)
(* basic modelling bus (Layer 2), the repository connector and the events  *)
(* connector: one posting agent ("sender") and one listening agent         *)
(* ("receiver") working on the three JSON topics of one artefact.          *)
(***************************************************************************)
EXTENDS Integers, Sequences, FiniteSets, TLC

(***************************************************************************)
(* Bounds of the model.                                                    *)
(***************************************************************************)
\* Number of Post... calls of the sender plus failures of the infrastructure
\* (an upload or a download that fails, a caller that passes an error).
MaxSteps == 4
\* Number of undelivered messages per topic subscription.
MaxQueue == 2
\* Last second of the wall clock.
MaxTime == 0
\* Largest member value of a JSON object.
MaxVal == 1
\* Number of GetNewID calls followed within one second.
MaxCalls == 101
\* Last second of the wall clock of a process that only issues timestamps.
LastSecond == 1
\* Most timestamps a process issued in the current second before it created
\* the posting connector.
MaxEarlier == 98

(***************************************************************************)
(* Byte strings.  A JSON document is an object over the member names of    *)
(* KeySeq; member value 0 stands for "member absent".  Besides documents   *)
(* there are the JSON encoding of a TJSONDelta, the empty byte string      *)
(* []byte{} and bytes that do not parse as JSON.                           *)
(***************************************************************************)
KeySeq == <<"a">>
Keys == {KeySeq[i] : i \in DOMAIN KeySeq}
Objects == [Keys -> 0..MaxVal]
NoObject == [k \in Keys |-> 0]

\* The Go empty string, as a timestamp value.
EmptyString == <<>>

JSONObject(o) ==
    [kind |-> "object", obj |-> o, operations |-> <<>>,
     timestamp |-> EmptyString, currentTimestamp |-> EmptyString]

EmptyBytes ==
    [kind |-> "empty", obj |-> NoObject, operations |-> <<>>,
     timestamp |-> EmptyString, currentTimestamp |-> EmptyString]

NotJSONBytes ==
    [kind |-> "garbage", obj |-> NoObject, operations |-> <<>>,
     timestamp |-> EmptyString, currentTimestamp |-> EmptyString]

\* What a caller may hand to a Post... call as stateJSON.
Inputs == {JSONObject(o) : o \in Objects} \cup {NotJSONBytes}

\* type TJSONDelta struct, marshalled.
TJSONDelta(ops, ts, cts) ==
    [kind |-> "delta", obj |-> NoObject, operations |-> ops,
     timestamp |-> ts, currentTimestamp |-> cts]

IsJSON(b) == b.kind \in {"object", "delta"}

(***************************************************************************)
(* RFC 6902 diff and patch on documents.                                   *)
(***************************************************************************)
Operation(o, k, v) == [op |-> o, path |-> k, value |-> v]

RECURSIVE CompareFrom(_, _, _)
CompareFrom(i, s, t) ==
    IF i > Len(KeySeq) THEN <<>>
    ELSE LET k == KeySeq[i]
             rest == CompareFrom(i + 1, s, t)
         IN  IF s[k] = t[k] THEN rest
             ELSE IF s[k] = 0 THEN <<Operation("add", k, t[k])>> \o rest
             ELSE IF t[k] = 0 THEN <<Operation("remove", k, 0)>> \o rest
             ELSE <<Operation("replace", k, t[k])>> \o rest

\* JSONDiff with the two documents exchanged.
JSONDiffReversed(sourceJSON, targetJSON) ==
    IF sourceJSON.kind = "object" /\ targetJSON.kind = "object"
    THEN [err |-> FALSE, operations |-> CompareFrom(1, targetJSON.obj, sourceJSON.obj)]
    ELSE [err |-> TRUE, operations |-> <<>>]

\* JSONDiff: an error when either side is not JSON, else the patch.
JSONDiff(sourceJSON, targetJSON) ==
    IF sourceJSON.kind = "object" /\ targetJSON.kind = "object"
    THEN [err |-> FALSE, operations |-> CompareFrom(1, sourceJSON.obj, targetJSON.obj)]
    ELSE [err |-> TRUE, operations |-> <<>>]

\* One patch operation: remove and replace need the member to be there.
ApplyOperation(o, operation) ==
    CASE operation.op = "add" ->
            [err |-> FALSE, obj |-> [o EXCEPT ![operation.path] = operation.value]]
      [] operation.op = "remove" ->
            IF o[operation.path] = 0 THEN [err |-> TRUE, obj |-> o]
            ELSE [err |-> FALSE, obj |-> [o EXCEPT ![operation.path] = 0]]
      [] OTHER ->
            IF o[operation.path] = 0 THEN [err |-> TRUE, obj |-> o]
            ELSE [err |-> FALSE, obj |-> [o EXCEPT ![operation.path] = operation.value]]

RECURSIVE ApplyFrom(_, _, _)
ApplyFrom(i, o, ops) ==
    IF i > Len(ops) THEN [err |-> FALSE, obj |-> o]
    ELSE LET r == ApplyOperation(o, ops[i])
         IN  IF r.err THEN r ELSE ApplyFrom(i + 1, r.obj, ops)

\* JSONApplyPatch: the patch library hands back a source of length 0 as it
\* is, without an error; else an error when the source is no document or an
\* operation fails, else the patched document.
JSONApplyPatch(sourceJSON, ops) ==
    IF sourceJSON.kind = "empty" THEN [err |-> FALSE, json |-> sourceJSON]
    ELSE IF sourceJSON.kind # "object" THEN [err |-> TRUE, json |-> EmptyBytes]
    ELSE LET r == ApplyFrom(1, sourceJSON.obj, ops)
         IN  IF r.err THEN [err |-> TRUE, json |-> EmptyBytes]
             ELSE [err |-> FALSE, json |-> JSONObject(r.obj)]

(***************************************************************************)
(* Topic paths of the artefact (artefact id and JSON version are fixed).   *)
(***************************************************************************)
artefactStatePathElement == "state"
artefactUpdatePathElement == "update"
artefactConsideringPathElement == "considering"

jsonArtefactsStateTopicPath == artefactStatePathElement
jsonArtefactsUpdateTopicPath == artefactUpdatePathElement
jsonArtefactsConsideringTopicPath == artefactConsideringPathElement

Topics ==
    {jsonArtefactsStateTopicPath, jsonArtefactsUpdateTopicPath,
     jsonArtefactsConsideringTopicPath}

(***************************************************************************)
(* Topic paths of the observation (the observation id is fixed).           *)
(***************************************************************************)
jsonObservationsPathElement == "observations/json"
streamedObservationsPathElement == "observations/streamed"

jsonObservationsTopicPath == jsonObservationsPathElement
streamedObservationsTopicPath == streamedObservationsPathElement

ObservationTopics == {jsonObservationsTopicPath, streamedObservationsTopicPath}

AllTopics == Topics \cup ObservationTopics

(***************************************************************************)
(* Observation payloads: a byte slice of some length that is a JSON        *)
(* document or not.                                                        *)
(***************************************************************************)
maxMQTTMessageSize == 300

PayloadSizes ==
    {maxMQTTMessageSize - 1, maxMQTTMessageSize, maxMQTTMessageSize + 1}

ObservationBytes(kind, o, size) == [kind |-> kind, obj |-> o, size |-> size]

Observations ==
    {ObservationBytes(k, NoObject, n) :
        k \in {"object", "garbage"}, n \in PayloadSizes}

\* len(payload)
Size(payload) == payload.size

EventPayloadAllowed(payload) == Size(payload) <= maxMQTTMessageSize

(***************************************************************************)
(* The state.                                                              *)
(***************************************************************************)
VARIABLES
    sender,      \* TModellingBusArtefactConnector of the posting agent
    receiver,    \* TModellingBusArtefactConnector of the listening agent
    clock,       \* lastTimeTimestamp and timestampCounter of the sender's process
    files,       \* the repository: the payload file under each topic path
    retained,    \* the broker: the retained message of each topic
    subscribed,  \* the topics the receiver listens to
    queue,       \* the messages of each topic not yet handed to the receiver
    steps,       \* number of Post... calls and of failures so far
    stateLog,    \* the state posts made: message, content and timestamp
    phase,       \* the receiver's place in the artefact's state machine
    last,        \* what the last operation did: messages, reports, handler calls
    expected     \* the sender's connector at each message still to be delivered

vars ==
    <<sender, receiver, clock, files, retained, subscribed, queue, steps,
      stateLog, phase, last, expected>>

NoFile ==
    [kind |-> "nofile", obj |-> NoObject, operations |-> <<>>,
     timestamp |-> EmptyString, currentTimestamp |-> EmptyString]

\* type tRepositoryEvent struct (file path "" when nothing was stored).
tRepositoryEvent(filePath, timestamp) ==
    [filePath |-> filePath, timestamp |-> timestamp]

NoMessage == tRepositoryEvent("none", EmptyString)

\* type tStreamedEvent struct
tStreamedEvent(timestamp, payload) ==
    [timestamp |-> timestamp, payload |-> payload]

(***************************************************************************)
(* Timestamps.                                                             *)
(***************************************************************************)
\* GetTimestamp without the counter of the calls within one second.
GetTimestampOfSecond(clk, t) ==
    [lastTimeTimestamp |-> t, timestampCounter |-> 0]

\* GetTimestamp, with time.Now() read as the second t: the counter counts
\* the calls within one second.
GetTimestamp(clk, t) ==
    IF t = clk.lastTimeTimestamp
    THEN [lastTimeTimestamp |-> clk.lastTimeTimestamp,
          timestampCounter |-> clk.timestampCounter + 1]
    ELSE [lastTimeTimestamp |-> t, timestampCounter |-> 0]

\* The string GetTimestamp returns, as the pair (second, counter).
TimestampOf(clk) == <<clk.lastTimeTimestamp, clk.timestampCounter>>

\* The decimal digits of n, as characters.
RECURSIVE Digits(_)
Digits(n) ==
    IF n < 10 THEN <<48 + n>> ELSE Append(Digits(n \div 10), 48 + (n % 10))

\* fmt.Sprintf("%02d", n): at least two digits.
Sprintf02d(n) == IF n < 10 THEN <<48>> \o Digits(n) ELSE Digits(n)

\* The characters of the string GetTimestamp returns for the pair ts:
\* fmt.Sprintf("%s-%02d", lastTimeTimestamp, timestampCounter).  The date and
\* time fields, all of fixed width, are written as the two digits of the
\* second.
TimestampString(ts) == Sprintf02d(ts[1]) \o <<45>> \o Sprintf02d(ts[2])

\* s < t for Go strings: bytewise, a proper prefix being smaller.
RECURSIVE StringLess(_, _)
StringLess(s, t) ==
    IF t = <<>> THEN FALSE
    ELSE IF s = <<>> THEN TRUE
    ELSE IF Head(s) # Head(t) THEN Head(s) < Head(t)
    ELSE StringLess(Tail(s), Tail(t))

(***************************************************************************)
(* What the environment decides during one Post... call: whether the first *)
(* and the second upload to the repository succeed, and the wall-clock     *)
(* second read by the first and by the second GetTimestamp call (the wall  *)
(* clock does not go backwards).                                           *)
(***************************************************************************)
Environments(clk) ==
    {e \in [storeOK : [1..2 -> BOOLEAN], second : [1..2 -> 0..MaxTime]] :
        /\ clk.lastTimeTimestamp <= e.second[1]
        /\ e.second[1] <= e.second[2]}

\* The environment as the second step of a call meets it.
Rest(e) ==
    [storeOK |-> [i \in 1..2 |-> e.storeOK[2]],
     second |-> [i \in 1..2 |-> e.second[2]]]

(***************************************************************************)
(* Creating a connector.                                                   *)
(***************************************************************************)
CreateModellingBusArtefactConnector(ts) ==
    [CurrentTimestamp |-> ts,
     CurrentContent |-> EmptyBytes,
     UpdatedContent |-> EmptyBytes,
     ConsideredContent |-> EmptyBytes,
     stateCommunicated |-> FALSE]

(***************************************************************************)
(* The posting side.  An operation maps a "world" w (the connector, its    *)
(* process clock, the repository, the broker and what the call published   *)
(* and reported so far) to the world after it.                             *)
(***************************************************************************)
World ==
    [conn |-> sender, clock |-> clock, files |-> files, retained |-> retained,
     queue |-> queue, published |-> <<>>, errors |-> 0, steps |-> steps + 1,
     log |-> stateLog, expected |-> expected]

\* What a listening connector can have in common with a posting one: the
\* three contents and the CurrentTimestamp.
Snapshot(b) == [b EXCEPT !.stateCommunicated = FALSE]

\* The value of expected while the messages are followed: in sending order,
\* the topic of each undelivered message and the sender's connector when it
\* was published.
Tracked(order) == [tracked |-> TRUE, order |-> order]

\* The value of expected once a message was missed, lost or overtaken.
Untracked == [tracked |-> FALSE, order |-> <<>>]

\* Layer 1 events connector: publish with the retained flag set.
postEvent(w, topicPath, message) ==
    [w EXCEPT !.retained[topicPath] = message,
              !.queue[topicPath] =
                  IF subscribed[topicPath] THEN Append(@, message) ELSE @,
              !.published = Append(@, [topic |-> topicPath, message |-> message]),
              !.expected.order =
                  IF w.expected.tracked
                  THEN Append(@, [topic |-> topicPath,
                                  connector |-> Snapshot(w.conn)])
                  ELSE @]

\* maybePostEvent: json.Marshal of a tRepositoryEvent never fails.
maybePostEvent(w, topicPath, message) == postEvent(w, topicPath, message)

\* addFile that does not overwrite: a payload file that exists is kept.
addFileKeepingOlder(w, topicPath, content, timestamp, storeOK) ==
    IF storeOK
    THEN [w |-> [w EXCEPT !.files[topicPath] =
                              IF @ = NoFile THEN content ELSE @],
          event |-> tRepositoryEvent(topicPath, timestamp)]
    ELSE [w |-> [w EXCEPT !.errors = @ + 1, !.steps = @ + 1],
          event |-> tRepositoryEvent("", timestamp)]


\* addFile: on a failure the event carries the timestamp and no file path.
addFile(w, topicPath, content, timestamp, storeOK) ==
    IF storeOK
    THEN [w |-> [w EXCEPT !.files[topicPath] = content],
          event |-> tRepositoryEvent(topicPath, timestamp)]
    ELSE [w |-> [w EXCEPT !.errors = @ + 1, !.steps = @ + 1],
          event |-> tRepositoryEvent("", timestamp)]

\* addJSONAsFile: content that is not JSON gives the zero event.
addJSONAsFile(w, topicPath, json, timestamp, storeOK) ==
    IF ~IsJSON(json)
    THEN [w |-> [w EXCEPT !.errors = @ + 1],
          event |-> tRepositoryEvent("", EmptyString)]
    ELSE addFile(w, topicPath, json, timestamp, storeOK)

\* postJSONAsFile: the event is published whatever addJSONAsFile returned.
postJSONAsFile(w, topicPath, jsonMessage, timestamp, storeOK) ==
    LET r == addJSONAsFile(w, topicPath, jsonMessage, timestamp, storeOK)
    IN  maybePostEvent(r.w, topicPath, r.event)

\* postJSONAsStreamed: json.Marshal of the event fails when the payload is
\* not JSON, and then nothing is published.
postJSONAsStreamed(w, topicPath, jsonMessage, timestamp) ==
    IF IsJSON(jsonMessage)
    THEN maybePostEvent(w, topicPath, tStreamedEvent(timestamp, jsonMessage))
    ELSE [w EXCEPT !.errors = @ + 1]

\* Events connector, deletePostingPath: the retained message of the topic
\* is cleared.
deleteEventPostingPath(w, topicPath) ==
    [w EXCEPT !.retained[topicPath] = NoMessage]

\* deleteRepositoryPath: the payload file and then its directory go.
deleteRepositoryPath(w, path) ==
    [w EXCEPT !.files[path] = NoFile]

\* deletePath: without a connection to the repository nothing is deleted.
deletePath(w, path, connectOK) ==
    IF connectOK
    THEN deleteRepositoryPath(w, path)
    ELSE [w EXCEPT !.errors = @ + 1, !.steps = @ + 1]

\* Repository connector, deletePostingPath.
deletePostingPath(w, topicPath, connectOK) ==
    deletePath(w, topicPath, connectOK)

\* A deletePosting that leaves the repository alone.
deletePostingEventOnly(w, topicPath, connectOK) ==
    deleteEventPostingPath(w, topicPath)

deletePosting(w, topicPath, connectOK) ==
    deletePostingPath(deleteEventPostingPath(w, topicPath), topicPath,
                      connectOK)

PostJSONObservation(w, json, e) ==
    LET clk == GetTimestamp(w.clock, e.second[1])
    IN  postJSONAsFile([w EXCEPT !.clock = clk], jsonObservationsTopicPath,
                       json, TimestampOf(clk), e.storeOK[1])

PostStreamedObservation(w, json, e) ==
    LET clk == GetTimestamp(w.clock, e.second[1])
    IN  postJSONAsStreamed([w EXCEPT !.clock = clk],
                           streamedObservationsTopicPath, json,
                           TimestampOf(clk))

DeleteJSONObservation(w, connectOK) ==
    deletePosting(w, jsonObservationsTopicPath, connectOK[1])

DeleteJSONArtefact(w, connectOK) ==
    LET w1 == deletePosting(w, jsonArtefactsStateTopicPath, connectOK[1])
        w2 == deletePosting(w1, jsonArtefactsUpdateTopicPath, connectOK[2])
    IN  deletePosting(w2, jsonArtefactsConsideringTopicPath, connectOK[3])

\* postJSONDelta with the arguments of JSONDiff exchanged.
postJSONDeltaReversed(w, deltaTopicPath, oldStateJSON, newStateJSON, e) ==
    LET d == JSONDiff(newStateJSON, oldStateJSON)
        clk == GetTimestamp(w.clock, e.second[1])
        delta == TJSONDelta(d.operations, TimestampOf(clk), w.conn.CurrentTimestamp)
    IN  IF d.err THEN [w EXCEPT !.errors = @ + 1]
        ELSE postJSONAsFile([w EXCEPT !.clock = clk], deltaTopicPath, delta,
                            delta.timestamp, e.storeOK[1])

\* postJSONDelta
postJSONDelta(w, deltaTopicPath, oldStateJSON, newStateJSON, e) ==
    LET d == JSONDiff(oldStateJSON, newStateJSON)
        clk == GetTimestamp(w.clock, e.second[1])
        delta == TJSONDelta(d.operations, TimestampOf(clk), w.conn.CurrentTimestamp)
    IN  IF d.err THEN [w EXCEPT !.errors = @ + 1]
        ELSE postJSONAsFile([w EXCEPT !.clock = clk], deltaTopicPath, delta,
                            delta.timestamp, e.storeOK[1])

\* An entry of stateLog: the message a PostJSONArtefactState call published,
\* the content it was called with and the CurrentTimestamp it set.
StatePost(message, json, timestamp) ==
    [message |-> message, json |-> json, timestamp |-> timestamp]

\* PostJSONArtefactState without the test of okJSONing.
PostJSONArtefactStateUnchecked(w, stateJSON, okJSONing, e) ==
    LET clk == GetTimestamp(w.clock, e.second[1])
        w1 == [w EXCEPT !.clock = clk,
                        !.conn.CurrentTimestamp = TimestampOf(clk),
                        !.conn.CurrentContent = stateJSON,
                        !.conn.UpdatedContent = stateJSON,
                        !.conn.ConsideredContent = stateJSON]
        w2 == postJSONAsFile(w1, jsonArtefactsStateTopicPath,
                             w1.conn.CurrentContent,
                             w1.conn.CurrentTimestamp, e.storeOK[1])
    IN  [w2 EXCEPT !.conn.stateCommunicated = TRUE,
                   !.log = @ \cup {StatePost(w2.retained[jsonArtefactsStateTopicPath],
                                             stateJSON, TimestampOf(clk))}]

\* PostJSONArtefactState
PostJSONArtefactState(w, stateJSON, okJSONing, e) ==
    IF ~okJSONing THEN [w EXCEPT !.steps = @ + 1]
    ELSE LET clk == GetTimestamp(w.clock, e.second[1])
             w1 == [w EXCEPT !.clock = clk,
                             !.conn.CurrentTimestamp = TimestampOf(clk),
                             !.conn.CurrentContent = stateJSON,
                             !.conn.UpdatedContent = stateJSON,
                             !.conn.ConsideredContent = stateJSON]
             w2 == postJSONAsFile(w1, jsonArtefactsStateTopicPath,
                                  w1.conn.CurrentContent,
                                  w1.conn.CurrentTimestamp, e.storeOK[1])
         IN  [w2 EXCEPT !.conn.stateCommunicated = TRUE,
                        !.log = @ \cup {StatePost(w2.retained[jsonArtefactsStateTopicPath],
                                                  stateJSON, TimestampOf(clk))}]

\* PostJSONArtefactUpdate as the earlier PostUpdate had it: when the state
\* was not communicated yet, post the state and nothing else.
PostJSONArtefactUpdateReturning(w, updatedStateJSON, okJSONing, e) ==
    IF ~okJSONing THEN [w EXCEPT !.steps = @ + 1]
    ELSE IF ~w.conn.stateCommunicated
    THEN PostJSONArtefactState(w, updatedStateJSON, okJSONing, e)
    ELSE postJSONDelta([w EXCEPT !.conn.UpdatedContent = updatedStateJSON,
                                 !.conn.ConsideredContent = updatedStateJSON],
                       jsonArtefactsUpdateTopicPath,
                       w.conn.CurrentContent, updatedStateJSON, e)

\* PostJSONArtefactUpdate
PostJSONArtefactUpdate(w, updatedStateJSON, okJSONing, e) ==
    IF ~okJSONing THEN [w EXCEPT !.steps = @ + 1]
    ELSE LET first == ~w.conn.stateCommunicated
             w1 == IF first
                   THEN PostJSONArtefactState(w, updatedStateJSON, okJSONing, e)
                   ELSE w
             w2 == [w1 EXCEPT !.conn.UpdatedContent = updatedStateJSON,
                              !.conn.ConsideredContent = updatedStateJSON]
         IN  postJSONDelta(w2, jsonArtefactsUpdateTopicPath,
                           w2.conn.CurrentContent, w2.conn.UpdatedContent,
                           IF first THEN Rest(e) ELSE e)

\* PostJSONArtefactConsidering with the delta computed from the current
\* version, and the updated version moved along.
PostJSONArtefactConsideringFromCurrent(w, consideringStateJSON, okJSONing, e) ==
    IF ~okJSONing THEN [w EXCEPT !.steps = @ + 1]
    ELSE LET first == ~w.conn.stateCommunicated
             w1 == IF first
                   THEN PostJSONArtefactState(w, w.conn.CurrentContent, okJSONing, e)
                   ELSE w
             w2 == [w1 EXCEPT !.conn.UpdatedContent = w1.conn.CurrentContent,
                              !.conn.ConsideredContent = consideringStateJSON]
         IN  postJSONDelta(w2, jsonArtefactsConsideringTopicPath,
                           w2.conn.CurrentContent, w2.conn.ConsideredContent,
                           IF first THEN Rest(e) ELSE e)

\* PostJSONArtefactConsidering
PostJSONArtefactConsidering(w, consideringStateJSON, okJSONing, e) ==
    IF ~okJSONing THEN [w EXCEPT !.steps = @ + 1]
    ELSE LET first == ~w.conn.stateCommunicated
             w1 == IF first
                   THEN PostJSONArtefactState(w, w.conn.CurrentContent, okJSONing, e)
                   ELSE w
             w2 == [w1 EXCEPT !.conn.ConsideredContent = consideringStateJSON]
         IN  postJSONDelta(w2, jsonArtefactsConsideringTopicPath,
                           w2.conn.UpdatedContent, w2.conn.ConsideredContent,
                           IF first THEN Rest(e) ELSE e)

(***************************************************************************)
(* The listening side.                                                     *)
(***************************************************************************)
\* getFile: the download fails when the transfer fails, when the event has
\* no file path or when the repository holds no file at the path.
getFile(repositoryEvent, fetchOK) ==
    IF /\ fetchOK
       /\ repositoryEvent.filePath \in AllTopics
       /\ files[repositoryEvent.filePath].kind # "nofile"
    THEN [ok |-> TRUE, content |-> files[repositoryEvent.filePath]]
    ELSE [ok |-> FALSE, content |-> EmptyBytes]

\* getLinkedFileFromRepository: the event's timestamp is returned also when
\* the download failed.
getLinkedFileFromRepository(message, fetchOK) ==
    LET f == getFile(message, fetchOK)
    IN  [ok |-> f.ok, content |-> f.content, timestamp |-> message.timestamp]

\* getJSONFromTemporaryFile: no file gives empty bytes and an empty timestamp.
getJSONFromTemporaryFile(f) ==
    IF f.ok
    THEN [json |-> f.content, timestamp |-> f.timestamp, errors |-> 0]
    ELSE [json |-> EmptyBytes, timestamp |-> EmptyString, errors |-> 1]

\* applyJSONDelta without the comparison of the timestamps.
applyJSONDeltaUnanchored(b, currentJSONState, deltaJSON) ==
    IF ~IsJSON(deltaJSON)
    THEN [json |-> currentJSONState, ok |-> FALSE, errors |-> 1]
    ELSE LET r == IF deltaJSON.kind = "delta"
                  THEN JSONApplyPatch(currentJSONState, deltaJSON.operations)
                  ELSE [err |-> TRUE, json |-> EmptyBytes]
         IN  IF r.err
             THEN [json |-> currentJSONState, ok |-> FALSE, errors |-> 1]
             ELSE [json |-> r.json, ok |-> TRUE, errors |-> 0]

\* applyJSONDelta reporting an error when the timestamps differ.
applyJSONDeltaReporting(b, currentJSONState, deltaJSON) ==
    IF ~IsJSON(deltaJSON)
    THEN [json |-> currentJSONState, ok |-> FALSE, errors |-> 1]
    ELSE IF deltaJSON.currentTimestamp # b.CurrentTimestamp
    THEN [json |-> currentJSONState, ok |-> FALSE, errors |-> 1]
    ELSE applyJSONDeltaUnanchored(b, currentJSONState, deltaJSON)

\* applyJSONDelta: the state to assign, whether the delta was applied, and
\* the number of error reports.
applyJSONDelta(b, currentJSONState, deltaJSON) ==
    IF ~IsJSON(deltaJSON)
    THEN [json |-> currentJSONState, ok |-> FALSE, errors |-> 1]
    ELSE IF deltaJSON.currentTimestamp # b.CurrentTimestamp
    THEN [json |-> currentJSONState, ok |-> FALSE, errors |-> 0]
    ELSE LET r == IF deltaJSON.kind = "delta"
                  THEN JSONApplyPatch(currentJSONState, deltaJSON.operations)
                  ELSE [err |-> TRUE, json |-> EmptyBytes]
         IN  IF r.err
             THEN [json |-> currentJSONState, ok |-> FALSE, errors |-> 1]
             ELSE [json |-> r.json, ok |-> TRUE, errors |-> 0]

\* updateCurrentJSONArtefact without the assignments to UpdatedContent and
\* ConsideredContent.
updateCurrentOnly(b, json, currentTimestamp) ==
    [b EXCEPT !.CurrentContent = json,
              !.CurrentTimestamp = currentTimestamp]

\* updateCurrentJSONArtefact
updateCurrentJSONArtefact(b, json, currentTimestamp) ==
    [b EXCEPT !.CurrentContent = json,
              !.UpdatedContent = json,
              !.ConsideredContent = json,
              !.CurrentTimestamp = currentTimestamp]

\* updateUpdatedJSONArtefact without the assignment to ConsideredContent.
updateUpdatedKeepingConsidered(b, json) ==
    LET r == applyJSONDelta(b, b.CurrentContent, json)
    IN  [b |-> [b EXCEPT !.UpdatedContent = r.json],
         ok |-> r.ok, errors |-> r.errors]

\* updateUpdatedJSONArtefact: the connector after it, and applyJSONDelta's result.
updateUpdatedJSONArtefact(b, json) ==
    LET r == applyJSONDelta(b, b.CurrentContent, json)
    IN  [b |-> [b EXCEPT !.UpdatedContent = r.json,
                         !.ConsideredContent = IF r.ok THEN r.json ELSE @],
         ok |-> r.ok, errors |-> r.errors]

\* updateConsideringJSONArtefact refusing a delta while no updated version
\* differs from the current one.
updateConsideringNeedingUpdated(b, json) ==
    LET r == applyJSONDelta(b, b.UpdatedContent, json)
    IN  IF b.UpdatedContent = b.CurrentContent
        THEN [b |-> b, ok |-> FALSE, errors |-> 0]
        ELSE [b |-> [b EXCEPT !.ConsideredContent = r.json],
              ok |-> r.ok, errors |-> r.errors]

\* updateConsideringJSONArtefact
updateConsideringJSONArtefact(b, json) ==
    LET r == applyJSONDelta(b, b.UpdatedContent, json)
    IN  [b |-> [b EXCEPT !.ConsideredContent = r.json],
         ok |-> r.ok, errors |-> r.errors]

(***************************************************************************)
(* What an operation leaves behind for observation: its name, the phase    *)
(* the receiver was in, the payload handed to a listening callback, the    *)
(* messages published, the number of error reports, the number of calls of *)
(* the user handler, and whether a delta was applied.                      *)
(***************************************************************************)
Outcome(op, from, payload, published, errors, handlerCalls, applied) ==
    [op |-> op, from |-> from, payload |-> payload, published |-> published,
     errors |-> errors, handlerCalls |-> handlerCalls, applied |-> applied]

(***************************************************************************)
(* Initial state: both connectors created, nothing posted, no subscription.*)
(* The receiver's process created its connector in some second.            *)
(***************************************************************************)
Init ==
    /\ clock = [lastTimeTimestamp |-> 0, timestampCounter |-> 0]
    /\ sender = CreateModellingBusArtefactConnector(TimestampOf(clock))
    /\ \E t \in 0..MaxTime :
          receiver = CreateModellingBusArtefactConnector(<<t, 0>>)
    /\ files = [t \in AllTopics |-> NoFile]
    /\ retained = [t \in AllTopics |-> NoMessage]
    /\ subscribed = [t \in AllTopics |-> FALSE]
    /\ queue = [t \in AllTopics |-> <<>>]
    /\ steps = 0
    /\ stateLog = {}
    /\ phase = "Fresh"
    /\ last = Outcome("Create", phase, EmptyBytes, <<>>, 0, 0, FALSE)
    /\ expected = Tracked(<<>>)

(***************************************************************************)
(* Actions of the posting agent.                                           *)
(***************************************************************************)
\* The messages are followed as long as the receiver listened to the three
\* topics before the first post, the first post is a PostJSONArtefactState,
\* and every call is made with JSON and meets no failure.
Followed(op, w) ==
    /\ w.expected.tracked
    /\ \A t \in Topics : subscribed[t]
    /\ w.errors = 0
    /\ w.steps = steps + 1
    /\ sender.stateCommunicated \/ op = "PostJSONArtefactState"

\* ... and as long as each message is delivered, in the order of sending.
Delivered(topicPath, fetchOK) ==
    IF /\ expected.tracked
       /\ fetchOK
       /\ expected.order # <<>>
       /\ Head(expected.order).topic = topicPath
    THEN Tracked(Tail(expected.order))
    ELSE Untracked

\* The variables after a Post... call that leads to world w.
Posted(op, w) ==
    /\ steps < MaxSteps
    /\ w.steps <= MaxSteps
    /\ \A t \in AllTopics : Len(w.queue[t]) <= MaxQueue
    /\ steps' = w.steps
    /\ sender' = w.conn
    /\ clock' = w.clock
    /\ files' = w.files
    /\ retained' = w.retained
    /\ queue' = w.queue
    /\ stateLog' = w.log
    /\ last' = Outcome(op, phase, EmptyBytes, w.published, w.errors, 0, FALSE)
    /\ expected' = IF Followed(op, w) THEN w.expected ELSE Untracked
    /\ UNCHANGED <<receiver, subscribed, phase>>

PostState ==
    \E x \in Inputs, okJSONing \in BOOLEAN, e \in Environments(clock) :
        Posted("PostJSONArtefactState",
               PostJSONArtefactState(World, x, okJSONing, e))

PostUpdate ==
    \E x \in Inputs, okJSONing \in BOOLEAN, e \in Environments(clock) :
        Posted("PostJSONArtefactUpdate",
               PostJSONArtefactUpdate(World, x, okJSONing, e))

PostConsidering ==
    \E x \in Inputs, okJSONing \in BOOLEAN, e \in Environments(clock) :
        Posted("PostJSONArtefactConsidering",
               PostJSONArtefactConsidering(World, x, okJSONing, e))

(***************************************************************************)
(* Actions of the listening agent.                                         *)
(***************************************************************************)
\* listenForEvents: subscribing hands over the retained message, if any.
Listen(topicPath) ==
    /\ ~subscribed[topicPath]
    /\ subscribed' = [subscribed EXCEPT ![topicPath] = TRUE]
    /\ queue' = [queue EXCEPT ![topicPath] =
                    IF retained[topicPath] = NoMessage THEN @
                    ELSE Append(@, retained[topicPath])]
    /\ last' = Outcome("Listen", phase, EmptyBytes, <<>>, 0, 0, FALSE)
    /\ UNCHANGED <<sender, receiver, clock, files, retained, steps,
                   stateLog, phase, expected>>

ListenForJSONArtefactStatePostings == Listen(jsonArtefactsStateTopicPath)
ListenForJSONArtefactUpdatePostings == Listen(jsonArtefactsUpdateTopicPath)
ListenForJSONArtefactConsideringPostings == Listen(jsonArtefactsConsideringTopicPath)

\* The payload listenForJSONFilePostings hands to the posting handler.
listenForJSONFilePostings(message, fetchOK) ==
    getJSONFromTemporaryFile(getLinkedFileFromRepository(message, fetchOK))

\* The callback of ListenForJSONArtefactStatePostings.
DeliverState ==
    \E fetchOK \in BOOLEAN :
        LET topic == jsonArtefactsStateTopicPath
            p == listenForJSONFilePostings(Head(queue[topic]), fetchOK)
        IN  /\ queue[topic] # <<>>
            /\ fetchOK \/ steps < MaxSteps
            /\ steps' = IF fetchOK THEN steps ELSE steps + 1
            /\ queue' = [queue EXCEPT ![topic] = Tail(@)]
            /\ receiver' = updateCurrentJSONArtefact(receiver, p.json, p.timestamp)
            /\ phase' = "Synced"
            /\ last' = Outcome("DeliverState", phase, p.json, <<>>, p.errors, 1,
                               FALSE)
            /\ expected' = Delivered(topic, fetchOK)
            /\ UNCHANGED <<sender, clock, files, retained, subscribed, stateLog>>

\* The callback of ListenForJSONArtefactUpdatePostings.
DeliverUpdate ==
    \E fetchOK \in BOOLEAN :
        LET topic == jsonArtefactsUpdateTopicPath
            p == listenForJSONFilePostings(Head(queue[topic]), fetchOK)
            r == updateUpdatedJSONArtefact(receiver, p.json)
        IN  /\ queue[topic] # <<>>
            /\ fetchOK \/ steps < MaxSteps
            /\ steps' = IF fetchOK THEN steps ELSE steps + 1
            /\ queue' = [queue EXCEPT ![topic] = Tail(@)]
            /\ receiver' = r.b
            /\ phase' = IF r.ok THEN "Updated" ELSE phase
            /\ last' = Outcome("DeliverUpdate", phase, p.json, <<>>,
                               p.errors + r.errors, IF r.ok THEN 1 ELSE 0, r.ok)
            /\ expected' = Delivered(topic, fetchOK)
            /\ UNCHANGED <<sender, clock, files, retained, subscribed, stateLog>>

\* The callback of ListenForJSONArtefactConsideringPostings.
DeliverConsidering ==
    \E fetchOK \in BOOLEAN :
        LET topic == jsonArtefactsConsideringTopicPath
            p == listenForJSONFilePostings(Head(queue[topic]), fetchOK)
            r == updateConsideringJSONArtefact(receiver, p.json)
        IN  /\ queue[topic] # <<>>
            /\ fetchOK \/ steps < MaxSteps
            /\ steps' = IF fetchOK THEN steps ELSE steps + 1
            /\ queue' = [queue EXCEPT ![topic] = Tail(@)]
            /\ receiver' = r.b
            /\ phase' = IF r.ok THEN "Considered" ELSE phase
            /\ last' = Outcome("DeliverConsidering", phase, p.json, <<>>,
                               p.errors + r.errors, IF r.ok THEN 1 ELSE 0, r.ok)
            /\ expected' = Delivered(topic, fetchOK)
            /\ UNCHANGED <<sender, clock, files, retained, subscribed, stateLog>>

Next ==
    \/ PostState
    \/ PostUpdate
    \/ PostConsidering
    \/ ListenForJSONArtefactStatePostings
    \/ ListenForJSONArtefactUpdatePostings
    \/ ListenForJSONArtefactConsideringPostings
    \/ DeliverState
    \/ DeliverUpdate
    \/ DeliverConsidering

Spec == Init /\ [][Next]_vars

(***************************************************************************)
(* A process that issues timestamps: each GetNewID call is one             *)
(* GetTimestamp call, made in the second the wall clock shows.             *)
(***************************************************************************)
GetNewID ==
    /\ clock.timestampCounter < MaxCalls
    /\ \E t \in clock.lastTimeTimestamp..LastSecond :
          clock' = GetTimestamp(clock, t)
    /\ last' = Outcome("GetNewID", phase, EmptyBytes, <<>>, 0, 0, FALSE)
    /\ UNCHANGED <<sender, receiver, files, retained, subscribed, queue, steps,
                   stateLog, phase, expected>>

SpecTimestamp == Init /\ [][GetNewID]_vars

(***************************************************************************)
(* A listening agent that joins late: its connector is created while the   *)
(* update and the considering topic already hold the retained link event   *)
(* and the payload file of some delta, and it has not listened to the      *)
(* state topic.  The process of the listening agent may have issued        *)
(* timestamps before it created the connector.                             *)
(***************************************************************************)
\* The timestamps of the first two GetTimestamp calls of each second.
Timestamps == {<<t, k>> : t \in 0..MaxTime, k \in 0..1}

\* The patches JSONDiff makes.
Patches ==
    {JSONDiff(JSONObject(s), JSONObject(t)).operations : s, t \in Objects}

\* The deltas postJSONDelta stores.
Deltas ==
    {TJSONDelta(ops, ts, cts) : ops \in Patches, ts, cts \in Timestamps}

InitFresh ==
    /\ clock = [lastTimeTimestamp |-> 0, timestampCounter |-> 0]
    /\ sender = CreateModellingBusArtefactConnector(TimestampOf(clock))
    /\ \E ts \in Timestamps :
          receiver = CreateModellingBusArtefactConnector(ts)
    /\ \E update, considering \in Deltas :
          /\ files = [t \in AllTopics |->
                         IF t = jsonArtefactsUpdateTopicPath THEN update
                         ELSE IF t = jsonArtefactsConsideringTopicPath
                         THEN considering
                         ELSE NoFile]
          /\ retained = [t \in AllTopics |->
                            IF files[t] = NoFile THEN NoMessage
                            ELSE tRepositoryEvent(t, files[t].timestamp)]
    /\ subscribed = [t \in AllTopics |-> FALSE]
    /\ queue = [t \in AllTopics |-> <<>>]
    /\ steps = 0
    /\ stateLog = {}
    /\ phase = "Fresh"
    /\ last = Outcome("Create", phase, EmptyBytes, <<>>, 0, 0, FALSE)
    /\ expected = Untracked

NextFresh ==
    \/ ListenForJSONArtefactUpdatePostings
    \/ ListenForJSONArtefactConsideringPostings
    \/ DeliverUpdate
    \/ DeliverConsidering

SpecFresh == InitFresh /\ [][NextFresh]_vars

(***************************************************************************)
(* A posting agent in a busy process: the process issued timestamps in the *)
(* current second, the last of them when it created the connector, and     *)
(* the agent then posts states.                                            *)
(***************************************************************************)
InitBusy ==
    /\ \E k \in 0..MaxEarlier :
          clock = [lastTimeTimestamp |-> 0, timestampCounter |-> k]
    /\ sender = CreateModellingBusArtefactConnector(TimestampOf(clock))
    /\ receiver = CreateModellingBusArtefactConnector(<<0, 0>>)
    /\ files = [t \in AllTopics |-> NoFile]
    /\ retained = [t \in AllTopics |-> NoMessage]
    /\ subscribed = [t \in AllTopics |-> FALSE]
    /\ queue = [t \in AllTopics |-> <<>>]
    /\ steps = 0
    /\ stateLog = {}
    /\ phase = "Fresh"
    /\ last = Outcome("Create", phase, EmptyBytes, <<>>, 0, 0, FALSE)
    /\ expected = Untracked

SpecBusy == InitBusy /\ [][PostState]_vars

(***************************************************************************)
(* The construction of topic paths.  A string is a sequence of pieces,     *)
(* each a "/" or text without one; the ids come from configuration and     *)
(* from the callers and are used as they are.                              *)
(***************************************************************************)
jsonArtefactsPathElement == "artefacts/json"
rawArtefactsPathElement == "artefacts/raw"
rawObservationsPathElement == "observations/raw"
ModellingBusVersion == "bus-version-1.0"

IDs == {<<"a">>, <<"b">>, <<"a", "/", "a">>}

rawArtefactsTopicPath(artefactID) ==
    <<rawArtefactsPathElement, "/">> \o artefactID

jsonArtefactsTopicPath(artefactID, JSONVersion) ==
    <<jsonArtefactsPathElement, "/">> \o artefactID \o <<"/">> \o JSONVersion

\* jsonArtefactsStateTopicPath, jsonArtefactsUpdateTopicPath and
\* jsonArtefactsConsideringTopicPath, by their path element.
jsonArtefactsElementTopicPath(artefactID, JSONVersion, element) ==
    jsonArtefactsTopicPath(artefactID, JSONVersion) \o <<"/", element>>

rawObservationsTopicPath(observationID) ==
    <<rawObservationsPathElement, "/">> \o observationID

jsonObservationsTopicPathFor(observationID) ==
    <<jsonObservationsPathElement, "/">> \o observationID

streamedObservationsTopicPathFor(observationID) ==
    <<streamedObservationsPathElement, "/">> \o observationID

ftpTopicPath(prefix, environmentID, agentID, topicPath) ==
    prefix \o <<"/", ModellingBusVersion, "/">> \o environmentID \o <<"/">>
        \o agentID \o <<"/">> \o topicPath

ArtefactElements ==
    {artefactStatePathElement, artefactUpdatePathElement,
     artefactConsideringPathElement}

Kinds ==
    ArtefactElements \cup
        {rawArtefactsPathElement, rawObservationsPathElement,
         jsonObservationsPathElement, streamedObservationsPathElement}

\* What a topic path is constructed from; only the topics of a JSON
\* artefact have a JSON version.
Tuples ==
    {t \in [experimentID : IDs, agentID : IDs, id : IDs,
            jsonVersion : IDs \cup {EmptyString}, kind : Kinds] :
        (t.jsonVersion = EmptyString) <=> (t.kind \notin ArtefactElements)}

TopicPath(t) ==
    ftpTopicPath(<<"prefix">>, t.experimentID, t.agentID,
        IF t.kind \in ArtefactElements
        THEN jsonArtefactsElementTopicPath(t.id, t.jsonVersion, t.kind)
        ELSE IF t.kind = rawArtefactsPathElement
        THEN rawArtefactsTopicPath(t.id)
        ELSE IF t.kind = rawObservationsPathElement
        THEN rawObservationsTopicPath(t.id)
        ELSE IF t.kind = jsonObservationsPathElement
        THEN jsonObservationsTopicPathFor(t.id)
        ELSE streamedObservationsTopicPathFor(t.id))

\* An agent constructs the path of a topic.
ConstructTopicPath ==
    /\ \E t \in Tuples :
          last' = [op |-> "TopicPath", tuple |-> t, path |-> TopicPath(t)]
    /\ UNCHANGED <<sender, receiver, clock, files, retained, subscribed,
                   queue, steps, stateLog, phase, expected>>

SpecTopics == Init /\ [][ConstructTopicPath]_vars

(***************************************************************************)
(* Routing: the server and port of a link event.  An agent stores a file   *)
(* with the configuration of its repository connector, and an agent with   *)
(* a configuration of its own fetches the file the link event names.       *)
(***************************************************************************)
Servers == {"ftp.one", "ftp.two"}
Ports == {"21", "990", "2121"}

\* The [ftp] section of the configuration of an agent.
RepositoryConfigs ==
    [server : Servers, port : Ports, singleServerMode : BOOLEAN]

\* addFile, the end: the server and port of the event of a stored file.
addFileOrigin(r) ==
    IF ~r.singleServerMode
    THEN [server |-> r.server, port |-> r.port]
    ELSE [server |-> "", port |-> ""]

\* json.Marshal of the event: a field tagged omitempty that is empty is
\* left out of the message.
MarshalOrigin(event) ==
    [f \in {g \in {"server", "port"} : event[g] # ""} |-> event[f]]

\* json.Unmarshal of the message: a field that is left out is empty.
UnmarshalOrigin(message) ==
    [f \in {"server", "port"} |->
        IF f \in DOMAIN message THEN message[f] ELSE ""]

\* getFile that always dials what the event carries.
serverConnectionOfEvent(r, repositoryEvent) ==
    <<repositoryEvent.server, repositoryEvent.port>>

\* getFile, the start: the server and port that are dialled.
serverConnection(r, repositoryEvent) ==
    IF r.singleServerMode
    THEN <<r.server, r.port>>
    ELSE <<repositoryEvent.server, repositoryEvent.port>>

StoreRouted ==
    /\ last.op = "Create"
    /\ \E r \in RepositoryConfigs :
          last' = [op |-> "addFile", poster |-> r,
                   message |-> MarshalOrigin(addFileOrigin(r))]
    /\ UNCHANGED <<sender, receiver, clock, files, retained, subscribed,
                   queue, steps, stateLog, phase, expected>>

FetchRouted ==
    /\ last.op = "addFile"
    /\ \E r \in RepositoryConfigs :
          last' = [op |-> "getFile", poster |-> last.poster,
                   message |-> last.message, reader |-> r,
                   dialled |-> serverConnection(r,
                                   UnmarshalOrigin(last.message))]
    /\ UNCHANGED <<sender, receiver, clock, files, retained, subscribed,
                   queue, steps, stateLog, phase, expected>>

NextRouting ==
    \/ StoreRouted
    \/ FetchRouted

SpecRouting == Init /\ [][NextRouting]_vars

(***************************************************************************)
(* Deleting a path of the repository.  The repository below a path is a    *)
(* tree of directories and files; an agent reads the tree and deletes the  *)
(* path.                                                                   *)
(***************************************************************************)
\* Longest path below the deleted path, in names.
MaxDepth == 2

RootPath == <<"p">>
Names == {"x", "y"}

RECURSIVE PathsBelow(_, _)
PathsBelow(path, depth) ==
    IF depth = 0 THEN {path}
    ELSE {path} \cup UNION {PathsBelow(Append(path, n), depth - 1) : n \in Names}

TreePaths == PathsBelow(RootPath, MaxDepth)

Parent(path) == SubSeq(path, 1, Len(path) - 1)

\* The trees an FTP server can hold at and below RootPath: what is below
\* a path is below a directory.
Trees ==
    {t \in UNION {[S -> {"dir", "file"}] : S \in SUBSET TreePaths} :
        /\ RootPath \in DOMAIN t
        /\ \A path \in DOMAIN t \ {RootPath} :
              /\ Parent(path) \in DOMAIN t
              /\ t[Parent(path)] = "dir"}

\* client.ReadDir: the entries of a directory; nothing for a file and for
\* a path that does not exist.
ReadDir(tree, path) ==
    {q \in DOMAIN tree : Len(q) = Len(path) + 1 /\ Parent(q) = path}

Removed(tree, path) == [q \in DOMAIN tree \ {path} |-> tree[q]]

\* client.Rmdir: removes a directory that has no entries.
Rmdir(tree, path) ==
    IF /\ path \in DOMAIN tree
       /\ tree[path] = "dir"
       /\ ReadDir(tree, path) = {}
    THEN Removed(tree, path)
    ELSE tree

\* client.Delete, the DELE command: removes a file; whether it removes a
\* directory without entries is up to the server.
Delete(tree, path, deleRemovesDirectory) ==
    IF path \notin DOMAIN tree THEN tree
    ELSE IF tree[path] = "file" THEN Removed(tree, path)
    ELSE IF deleRemovesDirectory /\ ReadDir(tree, path) = {}
    THEN Removed(tree, path)
    ELSE tree

RECURSIVE deleteRepositoryTree(_, _, _)
RECURSIVE deleteEntries(_, _, _)
\* The loop of deleteRepositoryPath over the entries of a directory.
deleteEntries(tree, fileInfos, deleRemovesDirectory) ==
    IF fileInfos = {} THEN tree
    ELSE LET fileInfo == CHOOSE q \in fileInfos : TRUE
         IN  deleteEntries(
                 deleteRepositoryTree(tree, fileInfo, deleRemovesDirectory),
                 fileInfos \ {fileInfo}, deleRemovesDirectory)

\* deleteRepositoryPath on the tree of the server.
deleteRepositoryTree(tree, path, deleRemovesDirectory) ==
    LET fileInfos == ReadDir(tree, path)
    IN  IF fileInfos # {}
        THEN Rmdir(deleteEntries(tree, fileInfos, deleRemovesDirectory), path)
        ELSE Delete(tree, path, deleRemovesDirectory)

\* deletePath on the tree of the server.
deleteTreePath(tree, path, connectOK, deleRemovesDirectory) ==
    IF connectOK
    THEN deleteRepositoryTree(tree, path, deleRemovesDirectory)
    ELSE tree

FindTree ==
    /\ last.op = "Create"
    /\ \E t \in Trees : last' = [op |-> "ReadDir", tree |-> t]
    /\ UNCHANGED <<sender, receiver, clock, files, retained, subscribed,
                   queue, steps, stateLog, phase, expected>>

DeleteTree ==
    /\ last.op = "ReadDir"
    /\ \E connectOK, deleRemovesDirectory \in BOOLEAN :
          last' = [op |-> "deletePath", tree |-> last.tree,
                   connectOK |-> connectOK,
                   deleRemovesDirectory |-> deleRemovesDirectory,
                   left |-> deleteTreePath(last.tree, RootPath, connectOK,
                                           deleRemovesDirectory)]
    /\ UNCHANGED <<sender, receiver, clock, files, retained, subscribed,
                   queue, steps, stateLog, phase, expected>>

NextTree ==
    \/ FindTree
    \/ DeleteTree

SpecTree == Init /\ [][NextTree]_vars

(***************************************************************************)
(* Getting the artefact without subscribing: an agent reads the retained   *)
(* message of a topic and runs the update logic on its payload.            *)
(***************************************************************************)
\* Events connector, messageFromEvent: the retained message of the topic.
messageFromEvent(topicPath) == retained[topicPath]

\* getJSON: no file gives empty bytes and an empty timestamp, no report.
getJSON(topicPath, fetchOK) ==
    LET f == getLinkedFileFromRepository(messageFromEvent(topicPath), fetchOK)
    IN  IF f.ok
        THEN [json |-> f.content, timestamp |-> f.timestamp]
        ELSE [json |-> EmptyBytes, timestamp |-> EmptyString]

GetJSONArtefactState(b, fetchOK) ==
    LET p == getJSON(jsonArtefactsStateTopicPath, fetchOK[1])
    IN  updateCurrentJSONArtefact(b, p.json, p.timestamp)

GetJSONArtefactUpdate(b, fetchOK) ==
    updateUpdatedJSONArtefact(
        GetJSONArtefactState(b, fetchOK),
        getJSON(jsonArtefactsUpdateTopicPath, fetchOK[2]).json)

\* GetJSONArtefactConsidering that does not get the update and the state.
GetJSONArtefactConsideringOnly(b, fetchOK) ==
    updateConsideringJSONArtefact(
        b, getJSON(jsonArtefactsConsideringTopicPath, fetchOK[3]).json)

GetJSONArtefactConsidering(b, fetchOK) ==
    updateConsideringJSONArtefact(
        GetJSONArtefactUpdate(b, fetchOK).b,
        getJSON(jsonArtefactsConsideringTopicPath, fetchOK[3]).json)

\* The variables after a Get... call that leaves connector b in phase p;
\* a download that fails counts as a step.
Got(op, b, p, fetchOK, fetched) ==
    /\ (\A i \in 1..fetched : fetchOK[i]) \/ steps < MaxSteps
    /\ steps' = IF \A i \in 1..fetched : fetchOK[i] THEN steps ELSE steps + 1
    /\ receiver' = b
    /\ phase' = p
    /\ last' = [op |-> op, from |-> phase, payload |-> EmptyBytes,
                published |-> <<>>, errors |-> 0, handlerCalls |-> 0,
                applied |-> FALSE, fetchOK |-> fetchOK]
    /\ expected' = Untracked
    /\ UNCHANGED <<sender, clock, files, retained, subscribed, queue,
                   stateLog>>

GetState ==
    \E fetchOK \in [1..3 -> BOOLEAN] :
        /\ fetchOK[2] /\ fetchOK[3]
        /\ Got("GetJSONArtefactState", GetJSONArtefactState(receiver, fetchOK),
               "Synced", fetchOK, 1)

GetUpdate ==
    \E fetchOK \in [1..3 -> BOOLEAN] :
        LET u == GetJSONArtefactUpdate(receiver, fetchOK)
        IN  /\ fetchOK[3]
            /\ Got("GetJSONArtefactUpdate", u.b,
                   IF u.ok THEN "Updated" ELSE "Synced", fetchOK, 2)

GetConsidering ==
    \E fetchOK \in [1..3 -> BOOLEAN] :
        LET u == GetJSONArtefactUpdate(receiver, fetchOK)
            c == GetJSONArtefactConsidering(receiver, fetchOK)
        IN  Got("GetJSONArtefactConsidering", c.b,
                IF c.ok THEN "Considered"
                ELSE IF u.ok THEN "Updated" ELSE "Synced", fetchOK, 3)

\* The connector of an agent that created it with timestamp ts, subscribed
\* to the three topics, and was delivered the retained state, then the
\* retained update, then the retained considering message.
FreshSubscriber(ts, fetchOK) ==
    LET b0 == CreateModellingBusArtefactConnector(ts)
        s == listenForJSONFilePostings(retained[jsonArtefactsStateTopicPath],
                                       fetchOK[1])
        b1 == updateCurrentJSONArtefact(b0, s.json, s.timestamp)
        u == listenForJSONFilePostings(retained[jsonArtefactsUpdateTopicPath],
                                       fetchOK[2])
        b2 == updateUpdatedJSONArtefact(b1, u.json).b
        c == listenForJSONFilePostings(
                 retained[jsonArtefactsConsideringTopicPath], fetchOK[3])
    IN  updateConsideringJSONArtefact(b2, c.json).b

NextGet ==
    \/ PostState
    \/ PostUpdate
    \/ PostConsidering
    \/ GetState
    \/ GetUpdate
    \/ GetConsidering

SpecGet == Init /\ [][NextGet]_vars

(***************************************************************************)
(* Diff and patch on their own: a patch is computed from a source and a    *)
(* target document and applied to a base document.                         *)
(***************************************************************************)
\* The documents: objects whose member is absent or has one of several
\* values, so that a patch can add, remove and replace.
Documents == {JSONObject(o) : o \in [Keys -> 0..(MaxVal + 3)]}

ComputePatch ==
    /\ last.op = "Create"
    /\ \E source, target \in Documents :
          last' = [op |-> "JSONDiff", source |-> source, target |-> target,
                   patch |-> JSONDiff(source, target)]
    /\ UNCHANGED <<sender, receiver, clock, files, retained, subscribed,
                   queue, steps, stateLog, phase, expected>>

ApplyPatch ==
    /\ last.op = "JSONDiff"
    /\ ~last.patch.err
    /\ \E base \in Documents :
          last' = [op |-> "JSONApplyPatch", source |-> last.source,
                   target |-> last.target, patch |-> last.patch,
                   base |-> base,
                   result |-> JSONApplyPatch(base, last.patch.operations)]
    /\ UNCHANGED <<sender, receiver, clock, files, retained, subscribed,
                   queue, steps, stateLog, phase, expected>>

NextRoundTrip ==
    \/ ComputePatch
    \/ ApplyPatch

SpecRoundTrip == Init /\ [][NextRoundTrip]_vars

(***************************************************************************)
(* The process of a listening agent and its MQTT client: connectToMQTT     *)
(* makes connection attempts, the connected client subscribes and runs the *)
(* callbacks of its subscriptions, and the client may report that the      *)
(* connection is lost.  The record in last holds the place of the process, *)
(* the number of attempts made, whether the last attempt was accepted,     *)
(* whether a loss was reported, and the outcome of the last operation.     *)
(***************************************************************************)
\* The number of connection attempts that are counted.
MaxAttempts == 3

\* connLostHandler returning to the client instead of panicking.
connLostHandlerReturning(m) ==
    [m EXCEPT !.op = "connLostHandler", !.lost = TRUE,
              !.errors = 0, !.handlerCalls = 0]

\* connLostHandler: the panic ends the process.
connLostHandler(m) ==
    [m EXCEPT !.op = "connLostHandler", !.lost = TRUE,
              !.errors = 0, !.handlerCalls = 0,
              !.position = "terminated"]

\* The loop of connectToMQTT left after the first attempt, whatever its
\* result.
connectToMQTTOnce(m, accepted) ==
    [m EXCEPT !.op = "connectToMQTT",
              !.attempts = IF @ < MaxAttempts THEN @ + 1 ELSE @,
              !.accepted = accepted,
              !.errors = IF accepted THEN 0 ELSE 1,
              !.handlerCalls = 0,
              !.position = "connected"]

\* One turn of the loop of connectToMQTT: Connect, token.Wait, and either
\* the error report and the sleep, or connected = true and the return.
connectToMQTT(m, accepted) ==
    [m EXCEPT !.op = "connectToMQTT",
              !.attempts = IF @ < MaxAttempts THEN @ + 1 ELSE @,
              !.accepted = accepted,
              !.errors = IF accepted THEN 0 ELSE 1,
              !.handlerCalls = 0,
              !.position = IF accepted THEN "connected" ELSE "connecting"]

InitConnection ==
    /\ clock = [lastTimeTimestamp |-> 0, timestampCounter |-> 0]
    /\ sender = CreateModellingBusArtefactConnector(TimestampOf(clock))
    /\ receiver = CreateModellingBusArtefactConnector(TimestampOf(clock))
    /\ files = [t \in AllTopics |-> NoFile]
    /\ retained = [t \in AllTopics |-> NoMessage]
    /\ subscribed = [t \in AllTopics |-> FALSE]
    /\ queue = [t \in AllTopics |-> <<>>]
    /\ steps = 0
    /\ stateLog = {}
    /\ phase = "Fresh"
    /\ last = [op |-> "Create", position |-> "connecting", attempts |-> 0,
               accepted |-> FALSE, lost |-> FALSE, errors |-> 0,
               handlerCalls |-> 0]
    /\ expected = Untracked

Attempt(accepted) ==
    /\ last.position = "connecting"
    /\ last' = connectToMQTT(last, accepted)
    /\ UNCHANGED <<sender, receiver, clock, files, retained, subscribed,
                   queue, steps, stateLog, phase, expected>>

Connect == \E accepted \in BOOLEAN : Attempt(accepted)

ConnectionLost ==
    /\ last.position = "connected"
    /\ last' = connLostHandler(last)
    /\ UNCHANGED <<sender, receiver, clock, files, retained, subscribed,
                   queue, steps, stateLog, phase, expected>>

\* listenToEventsOnMQTT
Subscribe ==
    /\ last.position = "connected"
    /\ \E t \in {jsonArtefactsStateTopicPath, jsonArtefactsUpdateTopicPath} :
          /\ ~subscribed[t]
          /\ subscribed' = [subscribed EXCEPT ![t] = TRUE]
    /\ last' = [last EXCEPT !.op = "listenToEventsOnMQTT", !.errors = 0,
                            !.handlerCalls = 0]
    /\ UNCHANGED <<sender, receiver, clock, files, retained, queue, steps,
                   stateLog, phase, expected>>

\* The client runs the callback of the state subscription on a state that
\* arrived.
StateArrives ==
    /\ last.position = "connected"
    /\ subscribed[jsonArtefactsStateTopicPath]
    /\ \E o \in Objects, ts \in Timestamps :
          receiver' = updateCurrentJSONArtefact(receiver, JSONObject(o), ts)
    /\ phase' = "Synced"
    /\ last' = [last EXCEPT !.op = "DeliverState", !.errors = 0,
                            !.handlerCalls = 1]
    /\ UNCHANGED <<sender, clock, files, retained, subscribed, queue, steps,
                   stateLog, expected>>

\* The client runs the callback of the update subscription on a delta that
\* arrived.
UpdateArrives ==
    /\ last.position = "connected"
    /\ subscribed[jsonArtefactsUpdateTopicPath]
    /\ \E d \in Deltas :
          LET r == updateUpdatedJSONArtefact(receiver, d)
          IN  /\ receiver' = r.b
              /\ phase' = IF r.ok THEN "Updated" ELSE phase
              /\ last' = [last EXCEPT !.op = "DeliverUpdate",
                                      !.errors = r.errors,
                                      !.handlerCalls = IF r.ok THEN 1 ELSE 0]
    /\ UNCHANGED <<sender, clock, files, retained, subscribed, queue, steps,
                   stateLog, expected>>

NextConnection ==
    \/ Connect
    \/ ConnectionLost
    \/ Subscribe
    \/ StateArrives
    \/ UpdateArrives

SpecConnection == InitConnection /\ [][NextConnection]_vars

\* The loop of connectToMQTT keeps running, and the broker accepts an
\* attempt at some time.
SpecConnectionFair == SpecConnection /\ WF_vars(Attempt(TRUE))

(***************************************************************************)
(* The posting and the listening agent, with a record of the considering   *)
(* deltas: for each delta stored, stateLog also holds the published        *)
(* message, the sender's UpdatedContent the delta was computed against and *)
(* the timestamp of the delta.                                             *)
(***************************************************************************)
\* An entry of stateLog for a considering delta.
ConsideringPost(message, base, timestamp) == StatePost(message, base, timestamp)

PostConsideringRecorded ==
    \E x \in Inputs, okJSONing \in BOOLEAN, e \in Environments(clock) :
        LET w == PostJSONArtefactConsidering(World, x, okJSONing, e)
            topic == jsonArtefactsConsideringTopicPath
        IN  Posted("PostJSONArtefactConsidering",
                   IF w.files[topic] # files[topic]
                   THEN [w EXCEPT !.log = @ \cup
                            {ConsideringPost(w.retained[topic],
                                             w.conn.UpdatedContent,
                                             w.files[topic].timestamp)}]
                   ELSE w)

NextRecorded ==
    \/ PostState
    \/ PostUpdate
    \/ PostConsideringRecorded
    \/ ListenForJSONArtefactStatePostings
    \/ ListenForJSONArtefactUpdatePostings
    \/ ListenForJSONArtefactConsideringPostings
    \/ DeliverState
    \/ DeliverUpdate
    \/ DeliverConsidering

SpecRecorded == Init /\ [][NextRecorded]_vars

(***************************************************************************)
(* The repository connector and the directories of the server: the        *)
(* connector remembers in createdPaths the paths it has made, and posts    *)
(* and deletions change the tree of the server.                           *)
(***************************************************************************)
PayloadFileName == "payload"

\* ftpTopicPath of two topics, below the root of the environment.
TopicDirectories == {Append(RootPath, n) : n \in Names}

\* A server that holds nothing.
NoTree == [q \in {} |-> "dir"]

\* client.Mkdir: makes a directory in a directory that exists (the root of
\* the server always does); an error, which the code ignores, otherwise.
Mkdir(tree, path) ==
    IF \/ path \in DOMAIN tree
       \/ /\ Len(path) > 1
          /\ \/ Parent(path) \notin DOMAIN tree
             \/ tree[Parent(path)] # "dir"
    THEN tree
    ELSE [q \in DOMAIN tree \cup {path} |->
             IF q = path THEN "dir" ELSE tree[q]]

\* The loop of mkRepositoryFilePath over the directories of the path.
RECURSIVE MkdirFrom(_, _, _)
MkdirFrom(i, tree, remoteFilePath) ==
    IF i > Len(remoteFilePath) THEN tree
    ELSE MkdirFrom(i + 1, Mkdir(tree, SubSeq(remoteFilePath, 1, i)),
                   remoteFilePath)

\* mkRepositoryFilePath
mkRepositoryFilePath(r, remoteFilePath, connectOK) ==
    IF remoteFilePath \in r.createdPaths THEN r
    ELSE IF connectOK
    THEN [r EXCEPT !.tree = MkdirFrom(1, r.tree, remoteFilePath),
                   !.createdPaths = @ \cup {remoteFilePath}]
    ELSE r

\* client.Store: the server takes the file when its directory exists.
Store(tree, path) ==
    IF /\ Parent(path) \in DOMAIN tree
       /\ tree[Parent(path)] = "dir"
       /\ (path \in DOMAIN tree => tree[path] = "file")
    THEN [ok |-> TRUE,
          tree |-> [q \in DOMAIN tree \cup {path} |->
                       IF q = path THEN "file" ELSE tree[q]]]
    ELSE [ok |-> FALSE, tree |-> tree]

\* addFile on the tree of the server: the connector and the server after
\* it, and whether the payload was stored.
addFileToTree(r, remoteFilePath, mkdirConnectOK, storeConnectOK) ==
    LET r1 == mkRepositoryFilePath(r, remoteFilePath, mkdirConnectOK)
        s == Store(r1.tree, Append(remoteFilePath, PayloadFileName))
    IN  IF storeConnectOK /\ s.ok
        THEN [r1 EXCEPT !.tree = s.tree, !.stored = TRUE]
        ELSE [r1 EXCEPT !.stored = FALSE]

\* createModellingBusRepositoryConnector, and a server that holds nothing.
InitPaths ==
    /\ clock = [lastTimeTimestamp |-> 0, timestampCounter |-> 0]
    /\ sender = CreateModellingBusArtefactConnector(TimestampOf(clock))
    /\ receiver = CreateModellingBusArtefactConnector(TimestampOf(clock))
    /\ files = [t \in AllTopics |-> NoFile]
    /\ retained = [t \in AllTopics |-> NoMessage]
    /\ subscribed = [t \in AllTopics |-> FALSE]
    /\ queue = [t \in AllTopics |-> <<>>]
    /\ steps = 0
    /\ stateLog = {}
    /\ phase = "Fresh"
    /\ last = [op |-> "Create", path |-> RootPath, tree |-> NoTree,
               createdPaths |-> {}, stored |-> FALSE, connectOK |-> FALSE]
    /\ expected = Untracked

\* A post to a topic.
AddFile ==
    /\ \E path \in TopicDirectories, mkdirConnectOK, storeConnectOK \in BOOLEAN :
          last' = [addFileToTree(last, path, mkdirConnectOK, storeConnectOK)
                      EXCEPT !.op = "addFile", !.path = path,
                             !.connectOK = storeConnectOK]
    /\ UNCHANGED <<sender, receiver, clock, files, retained, subscribed,
                   queue, steps, stateLog, phase, expected>>

\* deletePosting of a topic.
DeletePostingPath ==
    /\ \E path \in TopicDirectories, connectOK, deleRemovesDirectory \in BOOLEAN :
          last' = [last EXCEPT !.op = "deletePostingPath", !.path = path,
                               !.connectOK = connectOK, !.stored = FALSE,
                               !.tree = deleteTreePath(last.tree, path, connectOK,
                                                       deleRemovesDirectory)]
    /\ UNCHANGED <<sender, receiver, clock, files, retained, subscribed,
                   queue, steps, stateLog, phase, expected>>

\* DeleteEnvironment
DeleteEnvironmentPath ==
    /\ \E connectOK, deleRemovesDirectory \in BOOLEAN :
          last' = [last EXCEPT !.op = "deleteEnvironment", !.path = RootPath,
                               !.connectOK = connectOK, !.stored = FALSE,
                               !.tree = deleteTreePath(last.tree, RootPath, connectOK,
                                                       deleRemovesDirectory)]
    /\ UNCHANGED <<sender, receiver, clock, files, retained, subscribed,
                   queue, steps, stateLog, phase, expected>>

NextPaths ==
    \/ AddFile
    \/ DeletePostingPath
    \/ DeleteEnvironmentPath

SpecPaths == InitPaths /\ [][NextPaths]_vars

(***************************************************************************)
(* One process in which a thread posts a JSON (addJSONAsFile) while        *)
(* another downloads one (getFile, getJSONFromTemporaryFile).  Both use    *)
(* the local file localFilePathFor(JSONFileName) of the work folder.  The  *)
(* record in last holds the content posted, the content of the file on    *)
(* the server, the local file, how far each thread is, and what was        *)
(* uploaded and what was handed to the handler.                            *)
(***************************************************************************)
\* The threads run: the local file does not exist yet.
StartThreads ==
    /\ last.op = "Create"
    /\ \E posted, remote \in {JSONObject(o) : o \in Objects} :
          last' = [op |-> "Start", posted |-> posted, remote |-> remote,
                   local |-> NoFile, poster |-> "WriteFile",
                   getter |-> "Create", uploaded |-> NoFile,
                   handed |-> NoFile, errors |-> 0]
    /\ UNCHANGED <<sender, receiver, clock, files, retained, subscribed,
                   queue, steps, stateLog, phase, expected>>

\* addJSONAsFile: os.WriteFile of the JSON to the local file.
PosterWrites ==
    /\ last.op # "Create"
    /\ last.poster = "WriteFile"
    /\ last' = [last EXCEPT !.op = "os.WriteFile", !.local = last.posted,
                            !.poster = "Store"]
    /\ UNCHANGED <<sender, receiver, clock, files, retained, subscribed,
                   queue, steps, stateLog, phase, expected>>

\* addFile: os.Open of the local file and client.Store of what it holds;
\* an error report when the file is not there.
PosterStores ==
    /\ last.op # "Create"
    /\ last.poster = "Store"
    /\ last' = IF last.local = NoFile
               THEN [last EXCEPT !.op = "client.Store", !.errors = @ + 1,
                                 !.poster = "Remove"]
               ELSE [last EXCEPT !.op = "client.Store",
                                 !.uploaded = last.local,
                                 !.poster = "Remove"]
    /\ UNCHANGED <<sender, receiver, clock, files, retained, subscribed,
                   queue, steps, stateLog, phase, expected>>

\* addJSONAsFile: the deferred os.Remove of the local file.
PosterRemoves ==
    /\ last.op # "Create"
    /\ last.poster = "Remove"
    /\ last' = [last EXCEPT !.op = "os.Remove", !.local = NoFile,
                            !.poster = "done"]
    /\ UNCHANGED <<sender, receiver, clock, files, retained, subscribed,
                   queue, steps, stateLog, phase, expected>>

\* getFile: os.Create makes the local file, or empties the one there is.
GetterCreates ==
    /\ last.op # "Create"
    /\ last.getter = "Create"
    /\ last' = [last EXCEPT !.op = "os.Create", !.local = EmptyBytes,
                            !.getter = "Retrieve"]
    /\ UNCHANGED <<sender, receiver, clock, files, retained, subscribed,
                   queue, steps, stateLog, phase, expected>>

\* getFile: client.Retrieve writes the file of the server to the open
\* file; when the local file was removed meanwhile, the path stays without
\* a file.
GetterRetrieves ==
    /\ last.op # "Create"
    /\ last.getter = "Retrieve"
    /\ last' = [last EXCEPT !.op = "client.Retrieve",
                            !.local = IF @ = NoFile THEN @ ELSE last.remote,
                            !.getter = "ReadFile"]
    /\ UNCHANGED <<sender, receiver, clock, files, retained, subscribed,
                   queue, steps, stateLog, phase, expected>>

\* getJSONFromTemporaryFile: os.ReadFile and os.Remove of the local file;
\* the handler gets what was read, or empty bytes after an error report.
GetterReads ==
    /\ last.op # "Create"
    /\ last.getter = "ReadFile"
    /\ last' = IF last.local = NoFile
               THEN [last EXCEPT !.op = "os.ReadFile", !.errors = @ + 1,
                                 !.handed = EmptyBytes, !.getter = "done"]
               ELSE [last EXCEPT !.op = "os.ReadFile",
                                 !.handed = last.local, !.local = NoFile,
                                 !.getter = "done"]
    /\ UNCHANGED <<sender, receiver, clock, files, retained, subscribed,
                   queue, steps, stateLog, phase, expected>>

NextThreads ==
    \/ StartThreads
    \/ PosterWrites
    \/ PosterStores
    \/ PosterRemoves
    \/ GetterCreates
    \/ GetterRetrieves
    \/ GetterReads

SpecThreads == Init /\ [][NextThreads]_vars

(***************************************************************************)
(* One listening connector whose state callback and update callback run    *)
(* in two threads.  The connector has adopted a first state; the state     *)
(* callback adopts a second one while the update callback handles a delta  *)
(* anchored at one of the two.  Each assignment and each read of a field   *)
(* of the connector is a step.  The record in last holds the two states,   *)
(* the delta, how far each callback is, and what the update callback has   *)
(* read and computed.                                                      *)
(***************************************************************************)
FirstTimestamp == <<0, 0>>
SecondTimestamp == <<0, 1>>

StartCallbacks ==
    /\ last.op = "Create"
    /\ \E first, second \in {JSONObject(o) : o \in Objects},
          ops \in Patches, anchor \in {FirstTimestamp, SecondTimestamp} :
          /\ receiver' = updateCurrentJSONArtefact(receiver, first, FirstTimestamp)
          /\ last' = [op |-> "Start", first |-> first, second |-> second,
                      delta |-> TJSONDelta(ops, SecondTimestamp, anchor),
                      state |-> "CurrentContent", update |-> "CurrentContent",
                      base |-> EmptyBytes, result |-> EmptyBytes,
                      ok |-> FALSE, errors |-> 0]
    /\ UNCHANGED <<sender, clock, files, retained, subscribed, queue, steps,
                   stateLog, phase, expected>>

\* updateCurrentJSONArtefact, one assignment at a time.
StateCallbackAssigns ==
    /\ last.op # "Create"
    /\ last.state # "done"
    /\ \/ /\ last.state = "CurrentContent"
          /\ receiver' = [receiver EXCEPT !.CurrentContent = last.second]
          /\ last' = [last EXCEPT !.op = "updateCurrentJSONArtefact",
                                  !.state = "UpdatedContent"]
       \/ /\ last.state = "UpdatedContent"
          /\ receiver' = [receiver EXCEPT !.UpdatedContent = last.second]
          /\ last' = [last EXCEPT !.op = "updateCurrentJSONArtefact",
                                  !.state = "ConsideredContent"]
       \/ /\ last.state = "ConsideredContent"
          /\ receiver' = [receiver EXCEPT !.ConsideredContent = last.second]
          /\ last' = [last EXCEPT !.op = "updateCurrentJSONArtefact",
                                  !.state = "CurrentTimestamp"]
       \/ /\ last.state = "CurrentTimestamp"
          /\ receiver' = [receiver EXCEPT !.CurrentTimestamp = SecondTimestamp]
          /\ last' = [last EXCEPT !.op = "updateCurrentJSONArtefact",
                                  !.state = "done"]
    /\ UNCHANGED <<sender, clock, files, retained, subscribed, queue, steps,
                   stateLog, phase, expected>>

\* updateUpdatedJSONArtefact reads b.CurrentContent for the call of
\* applyJSONDelta.
UpdateCallbackReads ==
    /\ last.op # "Create"
    /\ last.update = "CurrentContent"
    /\ last' = [last EXCEPT !.op = "updateUpdatedJSONArtefact",
                            !.base = receiver.CurrentContent,
                            !.update = "applyJSONDelta"]
    /\ UNCHANGED <<sender, receiver, clock, files, retained, subscribed,
                   queue, steps, stateLog, phase, expected>>

\* applyJSONDelta compares the timestamps and applies the patch to the
\* content it was called with.
UpdateCallbackApplies ==
    /\ last.op # "Create"
    /\ last.update = "applyJSONDelta"
    /\ LET r == applyJSONDelta(receiver, last.base, last.delta)
       IN  last' = [last EXCEPT !.op = "applyJSONDelta", !.result = r.json,
                                !.ok = r.ok, !.errors = r.errors,
                                !.update = "UpdatedContent"]
    /\ UNCHANGED <<sender, receiver, clock, files, retained, subscribed,
                   queue, steps, stateLog, phase, expected>>

\* updateUpdatedJSONArtefact assigns UpdatedContent and, when the delta
\* was applied, ConsideredContent.
UpdateCallbackAssigns ==
    /\ last.op # "Create"
    /\ \/ /\ last.update = "UpdatedContent"
          /\ receiver' = [receiver EXCEPT !.UpdatedContent = last.result]
          /\ last' = [last EXCEPT !.op = "updateUpdatedJSONArtefact",
                                  !.update = IF last.ok THEN "ConsideredContent"
                                             ELSE "done"]
       \/ /\ last.update = "ConsideredContent"
          /\ receiver' = [receiver EXCEPT !.ConsideredContent = receiver.UpdatedContent]
          /\ last' = [last EXCEPT !.op = "updateUpdatedJSONArtefact",
                                  !.update = "done"]
    /\ UNCHANGED <<sender, clock, files, retained, subscribed, queue, steps,
                   stateLog, phase, expected>>

NextCallbacks ==
    \/ StartCallbacks
    \/ StateCallbackAssigns
    \/ UpdateCallbackReads
    \/ UpdateCallbackApplies
    \/ UpdateCallbackAssigns

SpecCallbacks == Init /\ [][NextCallbacks]_vars

(***************************************************************************)
(* A process that builds a CDM model: each Add...Type call takes a new     *)
(* element ID from NewElementID, which is one GetTimestamp call made in    *)
(* the second the wall clock shows, and enters the element under that ID.  *)
(* The IDs that have an element are the keys of TypeName.                  *)
(***************************************************************************)
\* The calls that add an element under a new element ID.
AddTypes == {"AddConcreteIndividualType", "AddQualityType",
             "AddInvolvementType", "AddRelationType",
             "AddRelationTypeReading"}

\* The keys of m.TypeName (and m.ReadingDefinition): empty in a new model.
Elements == IF last.op \in AddTypes THEN last.elements ELSE {}

\* NewElementID with the wall clock at second t: the clock after the call
\* and the string returned.
NewElementID(clk, t) ==
    LET c == GetTimestamp(clk, t)
    IN  [clock |-> c, id |-> TimestampString(TimestampOf(c))]

\* id := m.NewElementID(); m....Types[id] = true; m.TypeName[id] = name.
\* existed records whether the assignments replaced an element of the model.
AddType ==
    /\ clock.timestampCounter < MaxCalls
    /\ \E t \in clock.lastTimeTimestamp..LastSecond, add \in AddTypes :
          LET n == NewElementID(clock, t)
          IN  /\ clock' = n.clock
              /\ last' = [op |-> add,
                          id |-> n.id,
                          existed |-> n.id \in Elements,
                          elements |-> Elements \cup {n.id}]
    /\ UNCHANGED <<sender, receiver, files, retained, subscribed, queue, steps,
                   stateLog, phase, expected>>

SpecElements == Init /\ [][AddType]_vars

(***************************************************************************)
(* Two posting agents, each a process with its own clock, connector,       *)
(* repository directory and topics, and one listening agent that has       *)
(* subscribed to the three topics of the artefact with the wildcard for    *)
(* the agent ID: the subscription of listenToEventsOnMQTT then matches the *)
(* topics of both agents, and one callback per kind of posting handles     *)
(* the messages of both.  The record in last holds the world of each       *)
(* posting agent, the agent that published the message handled last, and   *)
(* the agent whose state the listening connector adopted last.  Every      *)
(* transfer to and from the repository succeeds.                           *)
(***************************************************************************)
Agents == {"agentA", "agentB"}

\* Most Post... calls one posting agent makes.
MaxPosts == 2

\* The world of posting agent a at the start of a Post... call.
WorldOf(a) ==
    [last.agents[a] EXCEPT !.published = <<>>, !.errors = 0, !.steps = @ + 1]

\* The listening agent subscribes with the wildcard before either agent
\* posts.
ListenWithWildcard ==
    /\ last.op = "Create"
    /\ subscribed' = [t \in AllTopics |-> t \in Topics]
    /\ last' = [op |-> "Listen",
                agents |-> [a \in Agents |->
                               [conn |-> sender, clock |-> clock,
                                files |-> files, retained |-> retained,
                                queue |-> queue, published |-> <<>>,
                                errors |-> 0, steps |-> 0, log |-> {},
                                expected |-> Untracked]],
                from |-> "none", adoptedFrom |-> "none",
                payload |-> EmptyBytes, applied |-> FALSE]
    /\ UNCHANGED <<sender, receiver, clock, files, retained, queue, steps,
                   stateLog, phase, expected>>

\* The variables after a Post... call of agent a that leads to its world w.
PostedBy(a, op, w) ==
    /\ w.steps <= MaxPosts
    /\ \A t \in Topics : Len(w.queue[t]) <= MaxQueue
    /\ last' = [last EXCEPT !.op = op, !.agents[a] = w, !.from = a,
                            !.payload = EmptyBytes, !.applied = FALSE]
    /\ UNCHANGED <<sender, receiver, clock, files, retained, subscribed, queue,
                   steps, stateLog, phase, expected>>

\* What the process of agent a meets during a Post... call.
EnvironmentsOf(a) ==
    {e \in Environments(last.agents[a].clock) :
        \A i \in 1..2 : e.storeOK[i]}

AgentPostsState ==
    /\ last.op # "Create"
    /\ \E a \in Agents, o \in Objects :
        \E e \in EnvironmentsOf(a) :
            PostedBy(a, "PostJSONArtefactState",
                     PostJSONArtefactState(WorldOf(a), JSONObject(o), TRUE, e))

AgentPostsUpdate ==
    /\ last.op # "Create"
    /\ \E a \in Agents, o \in Objects :
        \E e \in EnvironmentsOf(a) :
            PostedBy(a, "PostJSONArtefactUpdate",
                     PostJSONArtefactUpdate(WorldOf(a), JSONObject(o), TRUE, e))

AgentPostsConsidering ==
    /\ last.op # "Create"
    /\ \E a \in Agents, o \in Objects :
        \E e \in EnvironmentsOf(a) :
            PostedBy(a, "PostJSONArtefactConsidering",
                     PostJSONArtefactConsidering(WorldOf(a), JSONObject(o),
                                                 TRUE, e))

\* The payload listenForJSONFilePostings hands to the posting handler for
\* the oldest undelivered message of agent a on the topic: the file the
\* event links to in the directory of agent a.
PostingOf(a, topicPath) ==
    LET w == last.agents[a]
        message == Head(w.queue[topicPath])
        found == /\ message.filePath \in AllTopics
                 /\ w.files[message.filePath].kind # "nofile"
    IN  getJSONFromTemporaryFile(
            [ok |-> found,
             content |-> IF found THEN w.files[message.filePath]
                         ELSE EmptyBytes,
             timestamp |-> message.timestamp])

\* last after the callback handled the oldest message of agent a on the
\* topic.
Handled(op, a, topicPath, payload, applied) ==
    [last EXCEPT !.op = op, !.from = a, !.payload = payload,
                 !.applied = applied,
                 !.adoptedFrom = IF topicPath = jsonArtefactsStateTopicPath
                                 THEN a ELSE @,
                 !.agents[a].queue[topicPath] = Tail(@)]

\* The callback of ListenForJSONArtefactStatePostings, for a message of
\* either agent.
WildcardDeliverState ==
    \E a \in Agents :
        LET topic == jsonArtefactsStateTopicPath
            p == PostingOf(a, topic)
        IN  /\ last.op # "Create"
            /\ last.agents[a].queue[topic] # <<>>
            /\ receiver' = updateCurrentJSONArtefact(receiver, p.json, p.timestamp)
            /\ last' = Handled("DeliverState", a, topic, p.json, FALSE)
            /\ UNCHANGED <<sender, clock, files, retained, subscribed, queue,
                           steps, stateLog, phase, expected>>

\* The callback of ListenForJSONArtefactUpdatePostings, for a message of
\* either agent.
WildcardDeliverUpdate ==
    \E a \in Agents :
        LET topic == jsonArtefactsUpdateTopicPath
            p == PostingOf(a, topic)
            r == updateUpdatedJSONArtefact(receiver, p.json)
        IN  /\ last.op # "Create"
            /\ last.agents[a].queue[topic] # <<>>
            /\ receiver' = r.b
            /\ last' = Handled("DeliverUpdate", a, topic, p.json, r.ok)
            /\ UNCHANGED <<sender, clock, files, retained, subscribed, queue,
                           steps, stateLog, phase, expected>>

\* The callback of ListenForJSONArtefactConsideringPostings, for a message
\* of either agent.
WildcardDeliverConsidering ==
    \E a \in Agents :
        LET topic == jsonArtefactsConsideringTopicPath
            p == PostingOf(a, topic)
            r == updateConsideringJSONArtefact(receiver, p.json)
        IN  /\ last.op # "Create"
            /\ last.agents[a].queue[topic] # <<>>
            /\ receiver' = r.b
            /\ last' = Handled("DeliverConsidering", a, topic, p.json, r.ok)
            /\ UNCHANGED <<sender, clock, files, retained, subscribed, queue,
                           steps, stateLog, phase, expected>>

NextWildcard ==
    \/ ListenWithWildcard
    \/ AgentPostsState
    \/ AgentPostsUpdate
    \/ AgentPostsConsidering
    \/ WildcardDeliverState
    \/ WildcardDeliverUpdate
    \/ WildcardDeliverConsidering

SpecWildcard == Init /\ [][NextWildcard]_vars

(***************************************************************************)
(* A posting agent that also posts observations and deletes postings,      *)
(* with an agent that starts to listen at some time.                       *)
(***************************************************************************)
PostJSON ==
    \E x \in Observations, e \in Environments(clock) :
        Posted("PostJSONObservation", PostJSONObservation(World, x, e))

PostStreamed ==
    \E x \in Observations, e \in Environments(clock) :
        Posted("PostStreamedObservation", PostStreamedObservation(World, x, e))

DeleteObservation ==
    \E connectOK \in [1..3 -> BOOLEAN] :
        Posted("DeleteJSONObservation", DeleteJSONObservation(World, connectOK))

DeleteArtefact ==
    \E connectOK \in [1..3 -> BOOLEAN] :
        Posted("DeleteJSONArtefact", DeleteJSONArtefact(World, connectOK))

ListenForJSONObservationPostings == Listen(jsonObservationsTopicPath)

NextObservations ==
    \/ PostState
    \/ PostJSON
    \/ PostStreamed
    \/ DeleteObservation
    \/ ListenForJSONObservationPostings

SpecObservations == Init /\ [][NextObservations]_vars

NextDelete ==
    \/ PostState
    \/ PostUpdate
    \/ PostConsidering
    \/ PostJSON
    \/ DeleteArtefact
    \/ DeleteObservation
    \/ ListenForJSONArtefactStatePostings
    \/ ListenForJSONArtefactUpdatePostings
    \/ ListenForJSONArtefactConsideringPostings
    \/ ListenForJSONObservationPostings

SpecDelete == Init /\ [][NextDelete]_vars

(***************************************************************************)
(* Properties.                                                             *)
(***************************************************************************)
Views(b) == <<b.CurrentContent, b.UpdatedContent, b.ConsideredContent>>

DeltaTopics == {jsonArtefactsUpdateTopicPath, jsonArtefactsConsideringTopicPath}

DeltaCallbacks == {"DeliverUpdate", "DeliverConsidering"}

\* C1 (anchor discipline): when the receiver, in phase Synced, Updated or
\* Considered, is delivered an update or considering delta whose current
\* timestamp differs from its CurrentTimestamp, its three contents and its
\* CurrentTimestamp are after the delivery what they were before.
C1_AnchorDiscipline ==
    [][ (/\ last'.op \in DeltaCallbacks
         /\ last'.payload.kind = "delta"
         /\ last'.payload.currentTimestamp # receiver.CurrentTimestamp
         /\ phase \in {"Synced", "Updated", "Considered"})
        => receiver' = receiver ]_vars

\* A PostJSONArtefactUpdate(x) call with JSON x on a connector that has not
\* communicated a state, in which nothing fails.
FirstUpdate ==
    /\ last'.op = "PostJSONArtefactUpdate"
    /\ ~sender.stateCommunicated
    /\ steps' = steps + 1
    /\ IsJSON(sender'.UpdatedContent)

C3_DeltaAfterState ==
    \A i \in DOMAIN last.published :
        LET m == last.published[i]
        IN  (m.topic \in DeltaTopics /\ m.message.filePath = m.topic)
            => \E l \in stateLog :
                  l.message.timestamp = files[m.topic].currentTimestamp

\* C4 (state reset): after the receiver has processed a state message that
\* the sender posted with PostJSONArtefactState(json), its three contents
\* equal json and its CurrentTimestamp is the one the sender set in that
\* post.
C4_StateReset ==
    [][ (last'.op = "DeliverState" /\ last'.errors = 0)
        => \A l \in stateLog :
              l.message = Head(queue[jsonArtefactsStateTopicPath])
              => /\ Views(receiver') = <<l.json, l.json, l.json>>
                 /\ receiver'.CurrentTimestamp = l.timestamp ]_vars

\* C5 (considering requires a communicated state): PostJSONArtefactConsidering(c)
\* on a connector with stateCommunicated false first publishes a state
\* message carrying the connector's CurrentContent and then publishes on the
\* considering topic the delta diff(UpdatedContent, c), anchored at the
\* timestamp of that state.
C5_StateThenConsidering ==
    [][ (/\ last'.op = "PostJSONArtefactConsidering"
         /\ ~sender.stateCommunicated
         /\ steps' = steps + 1
         /\ IsJSON(sender'.ConsideredContent))
        => /\ Len(last'.published) = 2
           /\ last'.published[1] =
                  [topic |-> jsonArtefactsStateTopicPath,
                   message |-> tRepositoryEvent(jsonArtefactsStateTopicPath,
                                                sender'.CurrentTimestamp)]
           /\ files'[jsonArtefactsStateTopicPath] = sender.CurrentContent
           /\ last'.published[2].topic = jsonArtefactsConsideringTopicPath
           /\ last'.published[2].message.filePath = jsonArtefactsConsideringTopicPath
           /\ files'[jsonArtefactsConsideringTopicPath].kind = "delta"
           /\ files'[jsonArtefactsConsideringTopicPath].operations =
                  JSONDiff(sender.UpdatedContent, sender'.ConsideredContent).operations
           /\ files'[jsonArtefactsConsideringTopicPath].currentTimestamp =
                  sender'.CurrentTimestamp ]_vars

\* C6 (content that is not JSON): when PostJSONArtefactState is given bytes
\* that are not JSON, no message is published, the retained message of the
\* state topic stays what it was, and an error is reported.
C6_NotJSONNotPublished ==
    [][ (/\ last'.op = "PostJSONArtefactState"
         /\ steps' = steps + 1
         /\ ~IsJSON(sender'.CurrentContent))
        => /\ last'.published = <<>>
           /\ retained' = retained
           /\ last'.errors >= 1 ]_vars

\* C7 (a delta that cannot be applied): when a delta whose current timestamp
\* equals the receiver's CurrentTimestamp cannot be applied, the receiver's
\* three contents stay what they were and an error is reported.
C7_FailedDeltaKeepsViews ==
    [][ (/\ last'.op \in DeltaCallbacks
         /\ last'.payload.kind = "delta"
         /\ last'.payload.currentTimestamp = receiver.CurrentTimestamp
         /\ ~last'.applied)
        => /\ Views(receiver') = Views(receiver)
           /\ last'.errors >= 1 ]_vars

\* C8 (update applied): when the receiver is delivered an update delta whose
\* current timestamp equals its CurrentTimestamp and whose patch applies to
\* its CurrentContent, then afterwards UpdatedContent is the patched
\* CurrentContent, ConsideredContent equals UpdatedContent, CurrentContent
\* and CurrentTimestamp are unchanged, and the handler was called once.
C8_UpdateApplied ==
    [][ (/\ last'.op = "DeliverUpdate"
         /\ last'.payload.kind = "delta"
         /\ phase \in {"Synced", "Updated", "Considered"}
         /\ last'.payload.currentTimestamp = receiver.CurrentTimestamp
         /\ ~JSONApplyPatch(receiver.CurrentContent, last'.payload.operations).err)
        => /\ receiver'.UpdatedContent =
                  JSONApplyPatch(receiver.CurrentContent,
                                 last'.payload.operations).json
           /\ receiver'.ConsideredContent = receiver'.UpdatedContent
           /\ receiver'.CurrentContent = receiver.CurrentContent
           /\ receiver'.CurrentTimestamp = receiver.CurrentTimestamp
           /\ last'.handlerCalls = 1 ]_vars

\* An update delta was applied to a receiver that had been considering
\* another version, and it changed the content.
C8_Witness ==
    /\ last.op = "DeliverUpdate"
    /\ last.from = "Considered"
    /\ last.applied
    /\ last.handlerCalls = 1
    /\ receiver.UpdatedContent # receiver.CurrentContent
    /\ receiver.ConsideredContent = receiver.UpdatedContent

\* C9 as stated (no considering without an update): the receiver in phase
\* Synced rejects every considering delta, also one whose current timestamp
\* matches: ConsideredContent stays equal to CurrentContent and the handler
\* is not called.
C9_SyncedRejectsConsidering ==
    [][ (/\ last'.op = "DeliverConsidering"
         /\ last'.payload.kind = "delta"
         /\ phase = "Synced")
        => /\ receiver'.ConsideredContent = receiver'.CurrentContent
           /\ last'.handlerCalls = 0 ]_vars

\* C9 as amended: the receiver in phase Synced applies a considering delta
\* whose current timestamp equals its CurrentTimestamp and whose patch
\* applies to its UpdatedContent: ConsideredContent becomes the patched
\* UpdatedContent, the other contents and the timestamp stay, and the
\* handler is called once; every other considering delta leaves the
\* receiver as it was, with the handler not called.
C9_SyncedAppliesMatchingConsidering ==
    [][ (/\ last'.op = "DeliverConsidering"
         /\ last'.payload.kind = "delta"
         /\ phase = "Synced")
        => LET r == JSONApplyPatch(receiver.UpdatedContent, last'.payload.operations)
           IN  IF /\ last'.payload.currentTimestamp = receiver.CurrentTimestamp
                  /\ ~r.err
               THEN /\ receiver' = [receiver EXCEPT !.ConsideredContent = r.json]
                    /\ last'.handlerCalls = 1
               ELSE /\ receiver' = receiver
                    /\ last'.handlerCalls = 0 ]_vars

\* The receiver in phase Synced applied a considering delta that changed
\* the content.
C9_Witness ==
    /\ last.op = "DeliverConsidering"
    /\ last.from = "Synced"
    /\ last.applied
    /\ last.handlerCalls = 1
    /\ receiver.UpdatedContent = receiver.CurrentContent
    /\ receiver.ConsideredContent # receiver.UpdatedContent

\* The sender has posted one state S, holds S as its updated version, and
\* the considering message at the head of the receiver's queue is the last
\* thing it published: the delta of its last PostJSONArtefactConsidering(C).
ScenarioE3 ==
    /\ Cardinality(stateLog) = 1
    /\ sender.stateCommunicated
    /\ sender.UpdatedContent = sender.CurrentContent
    /\ IsJSON(sender.ConsideredContent)
    /\ queue[jsonArtefactsConsideringTopicPath] # <<>>
    /\ Head(queue[jsonArtefactsConsideringTopicPath]).timestamp = TimestampOf(clock)

\* C10 (scenario E3): when the sender calls PostJSONArtefactState(S) and then
\* PostJSONArtefactConsidering(C) with no update in between, and the
\* receiver gets the state message and then the considering delta, the
\* receiver ends with CurrentContent = S, UpdatedContent = S and
\* ConsideredContent = C.
C10_ScenarioE3 ==
    [][ (/\ ScenarioE3
         /\ phase = "Synced"
         /\ receiver.CurrentTimestamp = sender.CurrentTimestamp
         /\ last'.op = "DeliverConsidering"
         /\ last'.payload.kind = "delta")
        => Views(receiver') = <<sender.CurrentContent, sender.CurrentContent,
                                sender.ConsideredContent>> ]_vars

\* The receiver got the state and then the considering delta of scenario E3,
\* with C different from S.
C10_Witness ==
    /\ Cardinality(stateLog) = 1
    /\ last.op = "DeliverConsidering"
    /\ last.from = "Synced"
    /\ last.applied
    /\ receiver.CurrentTimestamp = sender.CurrentTimestamp
    /\ Views(receiver) = Views(sender)
    /\ receiver.ConsideredContent # receiver.CurrentContent

\* C11 (lock-step convergence): the sender first posts a state and then any
\* states, updates and considerings; the receiver listens to the three topics
\* from the start and gets every message, in the order of sending.  After
\* each delivery its three contents and its CurrentTimestamp are the ones
\* the sender had right after posting the message delivered.
C11_LockStepConvergence ==
    [][ (/\ last'.op \in {"DeliverState", "DeliverUpdate", "DeliverConsidering"}
         /\ expected.tracked
         /\ expected'.tracked)
        => receiver' = Head(expected.order).connector ]_vars

\* C12 (stale update after a newer state): when the receiver has adopted a
\* state S2 at timestamp T2 and is then delivered an update delta whose
\* current timestamp differs from T2, the delta is rejected, no error is
\* reported, the handler is not called, and the three contents still equal
\* S2 at CurrentTimestamp T2.
C12_StaleUpdateRejected ==
    [][ (/\ last'.op = "DeliverUpdate"
         /\ last'.payload.kind = "delta"
         /\ phase = "Synced"
         /\ last'.payload.currentTimestamp # receiver.CurrentTimestamp)
        => /\ ~last'.applied
           /\ last'.errors = 0
           /\ last'.handlerCalls = 0
           /\ Views(receiver') = <<receiver.CurrentContent, receiver.CurrentContent,
                                   receiver.CurrentContent>>
           /\ receiver'.CurrentTimestamp = receiver.CurrentTimestamp
           /\ phase' = "Synced" ]_vars

\* The receiver holds the second state the sender posted and has just
\* rejected an update delta that changes the content and is anchored at the
\* first state.
C12_Witness ==
    /\ last.op = "DeliverUpdate"
    /\ last.from = "Synced"
    /\ last.payload.kind = "delta"
    /\ last.payload.operations # <<>>
    /\ ~last.applied
    /\ \E l1, l2 \in stateLog :
          /\ l1.timestamp # l2.timestamp
          /\ last.payload.currentTimestamp = l1.timestamp
          /\ receiver.CurrentTimestamp = l2.timestamp
          /\ Views(receiver) = <<l2.json, l2.json, l2.json>>
    /\ ~JSONApplyPatch(receiver.CurrentContent, last.payload.operations).err

\* C13 (a fresh connector rejects deltas): a connector in phase Fresh that
\* is delivered an update delta or a considering delta, whatever current
\* timestamp the delta carries, stays as it was created and the handler is
\* not called.
C13_FreshRejectsDeltas ==
    [][ (/\ last'.op \in DeltaCallbacks
         /\ last'.payload.kind = "delta"
         /\ phase = "Fresh")
        => /\ receiver' = receiver
           /\ last'.handlerCalls = 0
           /\ phase' = "Fresh" ]_vars

\* C14 (monotonic timestamps): with a wall clock that does not go backwards,
\* the string a GetTimestamp call returns is greater, as a string, than the
\* string the call before it returned, however many calls are made within
\* one second.
C14_MonotonicTimestamps ==
    [][ clock' # clock
        => StringLess(TimestampString(TimestampOf(clock)),
                      TimestampString(TimestampOf(clock'))) ]_vars


\* C15: size routing.  A payload posted through the streamed API is
\* published inline in the event message only when its size is at most the
\* maximum event payload size of 300 bytes (a larger one is never inline on
\* the event channel), and every message of the artefact API is a link
\* event to a repository file.
C15_SizeRouting ==
    \A i \in DOMAIN last.published :
        LET m == last.published[i]
        IN  /\ m.topic = streamedObservationsTopicPath
               => EventPayloadAllowed(m.message.payload)
            /\ m.topic \in Topics
               => DOMAIN m.message = {"filePath", "timestamp"}

\* The topics a delete operation is about.
DeletedTopics(op) ==
    IF op = "DeleteJSONArtefact" THEN Topics
    ELSE IF op = "DeleteJSONObservation" THEN {jsonObservationsTopicPath}
    ELSE {}

\* A subscription to a topic without a retained message receives nothing.
LateSubscriberReceivesNothing ==
    \A t \in AllTopics :
        (~subscribed[t] /\ subscribed'[t] /\ retained[t] = NoMessage)
            => queue'[t] = queue[t]

ArtefactPosts ==
    {"PostJSONArtefactState", "PostJSONArtefactUpdate",
     "PostJSONArtefactConsidering"}

\* C17: a posting failure is a no-op.  When a Post... call is given JSON and
\* storing a payload in the repository fails, the event of the failed
\* storing (the one with the empty file path) is not published, and the
\* retained message of each topic stays what it was unless a payload was
\* stored for the topic.
C17_StoringFailureNoOp ==
    [][ (/\ last'.op \in ArtefactPosts
         /\ steps' > steps + 1
         /\ IsJSON(sender'.ConsideredContent))
        => /\ \A i \in DOMAIN last'.published :
                 last'.published[i].message.filePath # ""
           /\ \A t \in Topics :
                 retained'[t] = retained[t] \/ retained'[t].filePath # "" ]_vars

\* C18: a receiving failure is a no-op.  When a message delivered on the
\* state topic cannot be turned into a payload (a failure is reported), the
\* receiver's CurrentContent, UpdatedContent, ConsideredContent and
\* CurrentTimestamp stay what they were.
C18_ReceivingFailureNoOp ==
    [][ (/\ last'.op = "DeliverState"
         /\ last'.errors >= 1)
        => /\ Views(receiver') = Views(receiver)
           /\ receiver'.CurrentTimestamp = receiver.CurrentTimestamp ]_vars

\* C19: after PostJSONArtefactState(json) with okJSONing true, given JSON
\* and without a failure, the three contents are json, CurrentTimestamp is
\* a timestamp strictly greater than the previous CurrentTimestamp,
\* stateCommunicated is true, and exactly one message was published, on the
\* state topic, that announces json with the new CurrentTimestamp.
C19_StatePosted ==
    [][ (/\ last'.op = "PostJSONArtefactState"
         /\ clock' # clock
         /\ last'.errors = 0)
        => /\ sender'.CurrentContent \in Inputs
           /\ sender'.UpdatedContent = sender'.CurrentContent
           /\ sender'.ConsideredContent = sender'.CurrentContent
           /\ StringLess(TimestampString(sender.CurrentTimestamp),
                         TimestampString(sender'.CurrentTimestamp))
           /\ sender'.stateCommunicated
           /\ last'.published =
                  << [topic |-> jsonArtefactsStateTopicPath,
                      message |-> tRepositoryEvent(jsonArtefactsStateTopicPath,
                                                  sender'.CurrentTimestamp)] >>
           /\ files'[jsonArtefactsStateTopicPath] = sender'.CurrentContent ]_vars

\* C20: topic grammar.  The map from (experimentID, agentID, artefactID or
\* observationID, jsonVersion, kind) to the constructed topic path is
\* injective: no other tuple has the path constructed for a tuple.
C20_TopicPathInjective ==
    last.op = "TopicPath"
        => \A t \in Tuples : TopicPath(t) = last.path => t = last.tuple

\* C21: repository layout.  After a Post... call, the file at the path of
\* each topic for which the call stored a payload is the payload of the
\* latest such post (a newer posting overwrites the older one), and the
\* file of every other topic is what it was.
C21_RepositoryLayout ==
    [][ last'.op \in ArtefactPosts
        => \A t \in Topics :
              LET stored == {i \in DOMAIN last'.published :
                                /\ last'.published[i].topic = t
                                /\ last'.published[i].message.filePath = t}
              IN  IF stored = {} THEN files'[t] = files[t]
                  ELSE LET latest == CHOOSE i \in stored :
                                         \A j \in stored : j <= i
                           m == last'.published[latest].message
                       IN  IF t = jsonArtefactsStateTopicPath
                           THEN files'[t] = sender'.CurrentContent
                           ELSE /\ files'[t].kind = "delta"
                                /\ files'[t].timestamp = m.timestamp ]_vars

\* A second state was posted and stored: the payload file of the state
\* topic holds it, and no longer the state posted before.
C21_Witness ==
    /\ last.op = "PostJSONArtefactState"
    /\ Len(last.published) = 1
    /\ last.published[1].message.filePath = jsonArtefactsStateTopicPath
    /\ files[jsonArtefactsStateTopicPath] = sender.CurrentContent
    /\ \E l \in stateLog :
          /\ l.message.filePath = jsonArtefactsStateTopicPath
          /\ l.json # sender.CurrentContent

\* C22: routing mode.  The link event of a stored file carries the
\* poster's server and port exactly when the poster's single-server mode is
\* off; a reader in single-server mode dials the server and port of its own
\* configuration whatever the event carries, and a reader in multi-server
\* mode dials the server and port the event carries, which are the
\* poster's when the poster is in multi-server mode too.
C22_RoutingMode ==
    last.op = "getFile"
        => /\ IF last.poster.singleServerMode
              THEN DOMAIN last.message = {}
              ELSE last.message = [server |-> last.poster.server,
                                   port |-> last.poster.port]
           /\ last.reader.singleServerMode
                 => last.dialled = <<last.reader.server, last.reader.port>>
           /\ ~last.reader.singleServerMode
                 => last.dialled = <<UnmarshalOrigin(last.message).server,
                                     UnmarshalOrigin(last.message).port>>
           /\ (~last.reader.singleServerMode /\ ~last.poster.singleServerMode)
                 => last.dialled = <<last.poster.server, last.poster.port>>

\* A reader in single-server mode fetched a file whose event carries the
\* server of a poster in multi-server mode, which is not the reader's.
C22_Witness ==
    /\ last.op = "getFile"
    /\ ~last.poster.singleServerMode
    /\ last.reader.singleServerMode
    /\ last.poster.server # last.reader.server
    /\ last.dialled = <<last.reader.server, last.reader.port>>

\* C23: recursive deletion.  After deletePath(p) has connected to the
\* repository, neither p nor anything below p exists, whatever tree was
\* at p: also a tree with directories that have no entries.
C23_RecursiveDeletion ==
    (last.op = "deletePath" /\ last.connectOK) => DOMAIN last.left = {}

\* C24: a synchronous get equals a subscription.  While each of the state,
\* update and considering topics retains a message, GetJSONArtefactConsidering
\* leaves a connector with the CurrentContent, UpdatedContent,
\* ConsideredContent and CurrentTimestamp of a newly created connector that
\* is delivered the retained state, then the retained update, then the
\* retained considering message, with the same downloads succeeding.
C24_GetEqualsSubscription ==
    [][ (/\ last'.op = "GetJSONArtefactConsidering"
         /\ \A t \in Topics : retained[t] # NoMessage)
        => \A ts \in Timestamps :
              Snapshot(receiver') = Snapshot(FreshSubscriber(ts, last'.fetchOK)) ]_vars

\* A connector that held views of its own got the artefact while the three
\* topics retained a message, and holds a state, an updated version that
\* differs from it, and a considered version that differs from both.
C24_Witness ==
    /\ last.op = "GetJSONArtefactConsidering"
    /\ last.from # "Fresh"
    /\ \A t \in Topics : retained[t] # NoMessage
    /\ receiver.UpdatedContent # receiver.CurrentContent
    /\ receiver.ConsideredContent # receiver.UpdatedContent

C26_ConnectionLossFatal ==
    /\ [](last.lost => last.position = "terminated")
    /\ [][ last.lost
           => /\ receiver' = receiver
              /\ subscribed' = subscribed
              /\ last' = last ]_vars

\* The connection was lost by a process that had subscribed and had
\* adopted a state.
C26_Witness ==
    /\ last.lost
    /\ last.op = "connLostHandler"
    /\ subscribed[jsonArtefactsStateTopicPath]
    /\ phase # "Fresh"

\* C27: connectToMQTT makes a further attempt after every failed one and
\* returns only on an accepted attempt; when the broker accepts an attempt
\* at some time, connectToMQTT returns with the client connected.
C27_InitialConnect ==
    /\ [][ last.position = "connecting"
           => /\ last'.op = "connectToMQTT"
              /\ last'.accepted => last'.position = "connected"
              /\ ~last'.accepted => /\ last'.position = "connecting"
                                    /\ last'.errors = 1 ]_vars
    /\ <>(last.position = "connected")

\* connectToMQTT returned after more than one failed attempt.
C27_Witness ==
    /\ last.op = "connectToMQTT"
    /\ last.position = "connected"
    /\ last.accepted
    /\ last.attempts = MaxAttempts

\* The current version of a connector and its timestamp.
CurrentOf(b) == <<b.CurrentContent, b.CurrentTimestamp>>

\* The updated and the considered version equal the current one.
Snapped(b) ==
    /\ b.UpdatedContent = b.CurrentContent
    /\ b.ConsideredContent = b.CurrentContent

\* C28: CurrentContent and CurrentTimestamp of a connector change only in
\* PostJSONArtefactState, called by the agent or issued by
\* PostJSONArtefactUpdate or PostJSONArtefactConsidering on a connector
\* whose state was not communicated, and in the adoption of a received
\* state; posting or receiving a delta does not change them; and the step
\* that changes them leaves UpdatedContent and ConsideredContent equal to
\* the new CurrentContent.
C28_CurrentFrame ==
    [][ /\ CurrentOf(sender') # CurrentOf(sender)
           => /\ last'.op \in ArtefactPosts
              /\ last'.op = "PostJSONArtefactState" => Snapped(sender')
              /\ last'.op = "PostJSONArtefactUpdate"
                    => ~sender.stateCommunicated /\ Snapped(sender')
              /\ last'.op = "PostJSONArtefactConsidering"
                    => /\ ~sender.stateCommunicated
                       /\ \E e \in Environments(clock) :
                             LET s == PostJSONArtefactState(
                                          World, sender.CurrentContent,
                                          TRUE, e).conn
                             IN  /\ Snapped(s)
                                 /\ CurrentOf(sender') = CurrentOf(s)
                                 /\ sender'.UpdatedContent = s.UpdatedContent
        /\ CurrentOf(receiver') # CurrentOf(receiver)
           => /\ last'.op = "DeliverState"
              /\ Snapped(receiver')
        /\ last'.op \in {"DeliverUpdate", "DeliverConsidering"}
           => CurrentOf(receiver') = CurrentOf(receiver)
        /\ (last'.op \in {"PostJSONArtefactUpdate",
                          "PostJSONArtefactConsidering"}
            /\ sender.stateCommunicated)
           => CurrentOf(sender') = CurrentOf(sender) ]_vars

\* The receiver adopted a state that replaced a current version from which
\* its updated and its considered version differed.
C28_Witness ==
    /\ last.op = "DeliverState"
    /\ last.from = "Considered"
    /\ Snapped(receiver)
    /\ receiver.CurrentContent # EmptyBytes
    /\ \E c \in stateLog : c.json # receiver.CurrentContent

\* C29: on a sender whose state has been communicated,
\* PostJSONArtefactConsidering(c) called with okJSONing sets
\* ConsideredContent to c and leaves UpdatedContent as it is, the delta it
\* publishes is the difference from UpdatedContent to c, and
\* UpdatedContent changes in no step but a PostJSONArtefactUpdate or a
\* PostJSONArtefactState.
C29_ConsideringAgainstUpdated ==
    [][ /\ (last'.op = "PostJSONArtefactConsidering"
            /\ sender.stateCommunicated)
           => /\ sender'.UpdatedContent = sender.UpdatedContent
              /\ sender'.CurrentContent = sender.CurrentContent
              /\ \/ sender' = sender
                 \/ sender'.ConsideredContent \in Inputs
              /\ files'[jsonArtefactsConsideringTopicPath]
                    # files[jsonArtefactsConsideringTopicPath]
                    => LET d == JSONDiff(sender.UpdatedContent,
                                         sender'.ConsideredContent)
                           f == files'[jsonArtefactsConsideringTopicPath]
                       IN  /\ ~d.err
                           /\ f.kind = "delta"
                           /\ f.operations = d.operations
        /\ (sender'.UpdatedContent # sender.UpdatedContent
            /\ sender.stateCommunicated)
           => last'.op \in {"PostJSONArtefactUpdate", "PostJSONArtefactState"}
      ]_vars

\* A considering delta with operations was published by a sender whose
\* updated version differs from its current version.
C29_Witness ==
    /\ last.op = "PostJSONArtefactConsidering"
    /\ Len(last.published) = 1
    /\ sender.UpdatedContent # sender.CurrentContent
    /\ sender.ConsideredContent # sender.UpdatedContent
    /\ files[jsonArtefactsConsideringTopicPath].kind = "delta"
    /\ files[jsonArtefactsConsideringTopicPath].operations # <<>>

\* The delivered payload is a delta that applies to base on connector b:
\* its anchor is the connector's CurrentTimestamp and its patch applies.
Applies(b, base, payload) ==
    /\ payload.kind = "delta"
    /\ payload.currentTimestamp = b.CurrentTimestamp
    /\ ~JSONApplyPatch(base, payload.operations).err

\* C30: the callback of the state subscription calls the user handler once
\* for every state message; the callback of the update and of the
\* considering subscription calls it once when the delivered delta was
\* applied and not at all otherwise; and a delta whose anchor differs from
\* the connector's CurrentTimestamp is not applied, the handler is not
\* called and no error is reported.
C30_HandlerInvocation ==
    [][ /\ last'.op = "DeliverState"
           => /\ last'.handlerCalls = 1
              /\ receiver'.CurrentContent = last'.payload
        /\ last'.op = "DeliverUpdate"
           => /\ last'.handlerCalls \in {0, 1}
              /\ last'.handlerCalls = 1
                    <=> Applies(receiver, receiver.CurrentContent, last'.payload)
              /\ last'.handlerCalls = 1
                    => receiver'.UpdatedContent
                          = JSONApplyPatch(receiver.CurrentContent,
                                           last'.payload.operations).json
        /\ last'.op = "DeliverConsidering"
           => /\ last'.handlerCalls \in {0, 1}
              /\ last'.handlerCalls = 1
                    <=> Applies(receiver, receiver.UpdatedContent, last'.payload)
              /\ last'.handlerCalls = 1
                    => receiver'.ConsideredContent
                          = JSONApplyPatch(receiver.UpdatedContent,
                                           last'.payload.operations).json
        /\ (/\ last'.op \in {"DeliverUpdate", "DeliverConsidering"}
            /\ last'.payload.kind = "delta"
            /\ last'.payload.currentTimestamp # receiver.CurrentTimestamp)
           => /\ last'.handlerCalls = 0
              /\ last'.errors = 0
              /\ ~last'.applied ]_vars

\* A receiver that had adopted a state was delivered an update delta with
\* operations and another anchor.
C30_Witness ==
    /\ last.op = "DeliverUpdate"
    /\ last.from # "Fresh"
    /\ last.payload.kind = "delta"
    /\ last.payload.operations # <<>>
    /\ last.payload.currentTimestamp # receiver.CurrentTimestamp
    /\ last.handlerCalls = 0
    /\ last.errors = 0

\* The world after a Post... call leaves the connector, the broker and the
\* repository as the world before it, and the call published and reported
\* nothing.
NoEffect(w) ==
    /\ w.conn = sender
    /\ w.published = <<>>
    /\ w.errors = 0
    /\ w.retained = retained
    /\ w.queue = queue
    /\ w.files = files
    /\ w.clock = clock

\* C31: PostJSONArtefactState, PostJSONArtefactUpdate and
\* PostJSONArtefactConsidering called with okJSONing false change none of
\* CurrentContent, UpdatedContent, ConsideredContent, CurrentTimestamp and
\* stateCommunicated, and publish nothing, whatever the connector holds and
\* whatever content is passed.
C31_NotOkNoEffect ==
    \A x \in Inputs, e \in Environments(clock) :
        /\ NoEffect(PostJSONArtefactState(World, x, FALSE, e))
        /\ NoEffect(PostJSONArtefactUpdate(World, x, FALSE, e))
        /\ NoEffect(PostJSONArtefactConsidering(World, x, FALSE, e))

\* A Post... call that published and reported nothing was made on a sender
\* that had posted a state and an update.
C31_Witness ==
    /\ last.op \in ArtefactPosts
    /\ last.published = <<>>
    /\ last.errors = 0
    /\ sender.stateCommunicated
    /\ sender.UpdatedContent # sender.CurrentContent

\* The UpdatedContent of the sender against which the delivered considering
\* delta was computed.
BasesOf(payload) ==
    {c.json : c \in {p \in stateLog :
                        /\ p.message.filePath = jsonArtefactsConsideringTopicPath
                        /\ p.timestamp = payload.timestamp}}

\* C32: whenever the receiver applies a considering delta, the
\* UpdatedContent it applies the delta to is the UpdatedContent of the
\* sender against which the delta was computed.
C32_ConsideringOnItsBase ==
    [][ (/\ last'.op = "DeliverConsidering"
         /\ last'.applied)
        => BasesOf(last'.payload) = {receiver.UpdatedContent} ]_vars

\* The sender posted one state and then an update anchored at it, both
\* stored and published, and nothing else; the receiver is subscribed to
\* the state and the update topic and has been delivered every message,
\* each download succeeding.
StateAndUpdateDelivered ==
    /\ steps = 2
    /\ Cardinality(stateLog) = 1
    /\ \A c \in stateLog :
          /\ c.message.filePath = jsonArtefactsStateTopicPath
          /\ files[jsonArtefactsUpdateTopicPath].kind = "delta"
          /\ files[jsonArtefactsUpdateTopicPath].currentTimestamp = c.timestamp
    /\ retained[jsonArtefactsUpdateTopicPath].filePath = jsonArtefactsUpdateTopicPath
    /\ retained[jsonArtefactsConsideringTopicPath] = NoMessage
    /\ sender.UpdatedContent # sender.CurrentContent
    /\ subscribed[jsonArtefactsStateTopicPath]
    /\ subscribed[jsonArtefactsUpdateTopicPath]
    /\ queue[jsonArtefactsStateTopicPath] = <<>>
    /\ queue[jsonArtefactsUpdateTopicPath] = <<>>

\* C33: when the sender posted state S and then update U anchored at S and
\* nothing further, and the receiver, subscribed to both topics, has been
\* delivered both messages in either order, the receiver's UpdatedContent
\* is U.
C33_ConvergenceUnderReordering ==
    StateAndUpdateDelivered => receiver.UpdatedContent = sender.UpdatedContent

\* C34: after any sequence of posts, deletePosting and DeleteEnvironment
\* calls, every path in createdPaths is a directory of the server, and a
\* post to a topic whose path is in createdPaths, made with a working
\* connection, stores its payload.
C34_CreatedPathsExist ==
    /\ \A path \in last.createdPaths :
          /\ path \in DOMAIN last.tree
          /\ last.tree[path] = "dir"
    /\ (/\ last.op = "addFile"
        /\ last.connectOK
        /\ last.path \in last.createdPaths)
       => /\ last.stored
          /\ Append(last.path, PayloadFileName) \in DOMAIN last.tree

\* C35: stateCommunicated is true only if a state of the connector was
\* stored in the repository and announced on the state topic; a
\* PostJSONArtefactState whose content is not JSON or whose upload failed
\* leaves stateCommunicated false.
C35_CommunicatedMeansStored ==
    sender.stateCommunicated
       => \E c \in stateLog :
             c.message.filePath = jsonArtefactsStateTopicPath

\* C36: when a posting thread runs postJSONAsFile while another thread of
\* the process downloads a JSON payload, under every interleaving the
\* content uploaded is the JSON the poster passed in, the payload handed
\* to the handler is the file downloaded, and no error is reported.
C36_TemporaryFileIsolation ==
    last.op \notin {"Create", "Start"}
       => /\ last.poster \in {"Remove", "done"} => last.uploaded = last.posted
          /\ last.getter = "done" => last.handed = last.remote
          /\ last.errors = 0

\* The content of the state with the given timestamp.
StateAnchoredAt(timestamp) ==
    IF timestamp = FirstTimestamp THEN last.first ELSE last.second

C38_ElementIDsUnique ==
    last.op \in AddTypes
        => /\ ~last.existed
           /\ \A t \in clock.lastTimeTimestamp..LastSecond :
                 NewElementID(clock, t).id \notin last.elements

\* More than a hundred elements were added within one second: the counter
\* of the last ID has three digits.
C38_Witness ==
    /\ last.op \in AddTypes
    /\ clock.timestampCounter = 100
    /\ Cardinality(last.elements) > 100
    /\ Len(last.id) = 6


\* C39 (wildcard listening): a listening connector that subscribed with the
\* wildcard agent ID applies an update or considering delta only while the
\* state it adopted last came from the posting agent that published the
\* delta, also when the two agents' state timestamps are the same string.
C39_DeltaOfAdoptedAgent ==
    (/\ last.op \in {"DeliverUpdate", "DeliverConsidering"}
     /\ last.applied)
        => last.from = last.adoptedFrom


\* The listening connector b after it subscribed to the state and the update
\* topic and handled the retained message of each, the state first; every
\* download succeeds.
JoinedAfterwards(b) ==
    LET s == retained[jsonArtefactsStateTopicPath]
        u == retained[jsonArtefactsUpdateTopicPath]
        ps == listenForJSONFilePostings(s, TRUE)
        pu == listenForJSONFilePostings(u, TRUE)
        b1 == IF s = NoMessage THEN b
              ELSE updateCurrentJSONArtefact(b, ps.json, ps.timestamp)
    IN  IF u = NoMessage THEN b1
        ELSE updateUpdatedJSONArtefact(b1, pu.json).b

\* C40 (delete then update): when a sender that had posted and stored a
\* state has deleted its artefact and then posts the update x, a listening agent that
\* subscribes afterwards and handles the retained messages of the artefact,
\* the state before the update, ends with UpdatedContent = x.
C40_DeleteThenUpdate ==
    [][ (/\ last.op = "DeleteJSONArtefact"
         /\ last.errors = 0
         /\ sender.stateCommunicated
         /\ \E c \in stateLog :
               /\ c.message.filePath = jsonArtefactsStateTopicPath
               /\ c.timestamp = sender.CurrentTimestamp
         /\ \A t \in Topics : retained[t] = NoMessage /\ files[t] = NoFile
         /\ last'.op = "PostJSONArtefactUpdate"
         /\ last'.errors = 0
         /\ last'.published # <<>>)
        => JoinedAfterwards(receiver').UpdatedContent = sender'.UpdatedContent
      ]_vars
====
